---- MODULE Spec2Model ----
(***************************************************************************)
(* A model of the matching pipeline of Resolve: the normalizer, the        *)
(* blocking/cluster service with its key cache, the match service          *)
(* (AddEntity, FindMatches, FindMatchesForEntity) and the match-group      *)
(* resolver (GetMatchGroup with its direct, transitive and hybrid          *)
(* strategies), over a small vector store.                                 *)
(*                                                                         *)
(* Conventions.                                                            *)
(*  - Go strings are TLA+ strings; a character is a string of length 1.    *)
(*    Only ASCII occurs, so byte and rune indices agree.                   *)
(*  - float32/float64 scores are exact rationals <<n, d>> in lowest terms  *)
(*    with d > 0; rounding is not modelled.                                *)
(*  - An entity ID is the natural number giving its rank in lexicographic  *)
(*    order; 0 is the empty ID.                                            *)
(*  - An embedding vector is a point 0..MaxVec on a line; the cosine       *)
(*    distance of two vectors is a tenth of their gap.  The embedding      *)
(*    service is external: the vector it returns for a text is an input.   *)
(*  - MD5 is modelled as an injective function of the key text.            *)
(***************************************************************************)
EXTENDS Integers, Sequences, FiniteSets, TLC

(***************************************************************************)
(* Bounds                                                                  *)
(***************************************************************************)
MaxVec == 1

\* the number of entities the store holds at most under batch ingest
MaxStored == 201

\* the background goroutines pending at most, and the recomputations run
MaxGoroutines == 2
MaxRuns == 2

\* the class-creation calls the vector store fails at most for a reason of
\* its own
MaxCreateFailures == 1

\* cfg.Embedding.CacheSize and cfg.Embedding.BatchSize
CacheSize == 1
EmbedBatchSize == 1
\* the batch size GetEmbeddingBatch uses when none is configured
DefaultEmbedBatchSize == 32

\* the IDs entities are stored under, and the ones the match requests use
IDs == {1, 2, 3}
MatchIDs == {1, 2}
\* the IDs of the query entities; 0 is a query entity without ID
QueryIDs == {0, 1}
Vecs == 0..MaxVec

(***************************************************************************)
(* Rationals                                                               *)
(***************************************************************************)
Abs(x) == IF x < 0 THEN -x ELSE x

RECURSIVE Gcd(_, _)
Gcd(a, b) == IF b = 0 THEN a ELSE Gcd(b, a % b)

\* the result of 0/0 and of arithmetic on it
NaN == <<0, 0>>

R(n, d) ==
    LET g == Gcd(Abs(n), Abs(d))
        s == IF d < 0 THEN -1 ELSE 1
    IN  IF d = 0 THEN NaN ELSE <<(s * n) \div g, (s * d) \div g>>

RAdd(a, b) == R(a[1] * b[2] + b[1] * a[2], a[2] * b[2])
RSub(a, b) == R(a[1] * b[2] - b[1] * a[2], a[2] * b[2])
RMul(a, b) == R(a[1] * b[1], a[2] * b[2])
RDiv(a, b) == R(a[1] * b[2], a[2] * b[1])
RLess(a, b) == a[1] * b[2] < b[1] * a[2]
RLeq(a, b) == a[2] # 0 /\ b[2] # 0 /\ a[1] * b[2] <= b[1] * a[2]
RInt(n) == <<n, 1>>
RZero == <<0, 1>>
ROne == <<1, 1>>

(***************************************************************************)
(* Strings                                                                 *)
(***************************************************************************)
Min(a, b) == IF a < b THEN a ELSE b
Max(a, b) == IF a > b THEN a ELSE b

CharAt(s, i) == SubSeq(s, i, i)
Prefix(s, n) == SubSeq(s, 1, n)
Suffix(s, i) == SubSeq(s, i, Len(s))

UpperChars == "ABCDEFGHIJKLMNOPQRSTUVWXYZ"
LowerChars == "abcdefghijklmnopqrstuvwxyz"
DigitChars == "0123456789"

RECURSIVE IndexFrom(_, _, _)
IndexFrom(s, c, i) ==
    IF i > Len(s) THEN 0
    ELSE IF CharAt(s, i) = c THEN i
    ELSE IndexFrom(s, c, i + 1)

\* strings.Index for a one-character needle; 0 when absent
IndexOf(s, c) == IndexFrom(s, c, 1)
ContainsChar(s, c) == IndexOf(s, c) > 0

IsUpper(c) == ContainsChar(UpperChars, c)
IsDigit(c) == ContainsChar(DigitChars, c)
IsLetter(c) == IsUpper(c) \/ ContainsChar(LowerChars, c)
IsAlnum(c) == IsLetter(c) \/ IsDigit(c)
IsWordChar(c) == IsAlnum(c) \/ c = "_"
IsSpace(c) == c = " "

LowerChar(c) == IF IsUpper(c) THEN CharAt(LowerChars, IndexOf(UpperChars, c)) ELSE c

RECURSIVE ToLower(_)
ToLower(s) == IF s = "" THEN "" ELSE LowerChar(CharAt(s, 1)) \o ToLower(Suffix(s, 2))

ContainsStr(s, sub) ==
    \E i \in 1..(Len(s) - Len(sub) + 1) : SubSeq(s, i, i + Len(sub) - 1) = sub

RECURSIVE Perms(_)
\* the sequences that list every element of S once
Perms(S) ==
    IF S = {} THEN {<<>>}
    ELSE UNION {{<<x>> \o p : p \in Perms(S \ {x})} : x \in S}

\* the character at index k of s is c
HasCharAt(s, k, c) == k <= Len(s) /\ CharAt(s, k) = c

UpperChar(c) ==
    IF ContainsChar(LowerChars, c) THEN CharAt(UpperChars, IndexOf(LowerChars, c)) ELSE c

RECURSIVE ToUpper(_)
ToUpper(s) == IF s = "" THEN "" ELSE UpperChar(CharAt(s, 1)) \o ToUpper(Suffix(s, 2))

\* every character of s occurs in allowed
AllIn(s, allowed) == \A i \in 1..Len(s) : ContainsChar(allowed, CharAt(s, i))

\* the index of the first character of s from i on that is not in allowed,
\* Len(s) + 1 when there is none
RECURSIVE SkipChars(_, _, _)
SkipChars(s, allowed, i) ==
    IF i <= Len(s) /\ ContainsChar(allowed, CharAt(s, i)) THEN SkipChars(s, allowed, i + 1)
    ELSE i

\* strings.LastIndex for a one-character separator, 0 when absent
RECURSIVE LastIndexOf(_, _)
LastIndexOf(s, c) ==
    IF s = "" THEN 0
    ELSE IF CharAt(s, Len(s)) = c THEN Len(s)
    ELSE LastIndexOf(Prefix(s, Len(s) - 1), c)

RECURSIVE TrimLeft(_)
TrimLeft(s) == IF s # "" /\ IsSpace(CharAt(s, 1)) THEN TrimLeft(Suffix(s, 2)) ELSE s

RECURSIVE TrimRight(_)
TrimRight(s) ==
    IF s # "" /\ IsSpace(CharAt(s, Len(s))) THEN TrimRight(Prefix(s, Len(s) - 1)) ELSE s

TrimSpace(s) == TrimRight(TrimLeft(s))

\* strings.Split(s, c) for a one-character separator
RECURSIVE Split(_, _)
Split(s, c) ==
    LET i == IndexOf(s, c)
    IN  IF i = 0 THEN <<s>>
        ELSE <<Prefix(s, i - 1)>> \o Split(Suffix(s, i + 1), c)

\* strings.SplitN(s, c, 2)
SplitN2(s, c) ==
    LET i == IndexOf(s, c)
    IN  IF i = 0 THEN <<s>> ELSE <<Prefix(s, i - 1), Suffix(s, i + 1)>>

\* strings.Fields: the maximal runs of non-space characters
RECURSIVE Fields(_)
Fields(s) ==
    LET t == TrimLeft(s)
        i == IndexOf(t, " ")
    IN  IF t = "" THEN <<>>
        ELSE IF i = 0 THEN <<t>>
        ELSE <<Prefix(t, i - 1)>> \o Fields(Suffix(t, i + 1))

RECURSIVE Join(_, _)
Join(ss, sep) ==
    IF Len(ss) = 0 THEN ""
    ELSE IF Len(ss) = 1 THEN ss[1]
    ELSE ss[1] \o sep \o Join(Tail(ss), sep)

\* the characters of s that occur in allowed, in order
RECURSIVE KeepChars(_, _)
KeepChars(s, allowed) ==
    IF s = "" THEN ""
    ELSE (IF ContainsChar(allowed, CharAt(s, 1)) THEN CharAt(s, 1) ELSE "")
         \o KeepChars(Suffix(s, 2), allowed)

\* spaceRegex.ReplaceAllString(s, " "): every run of spaces becomes one space
RECURSIVE CollapseSpaces(_)
CollapseSpaces(s) ==
    IF s = "" THEN ""
    ELSE IF IsSpace(CharAt(s, 1))
         THEN " " \o CollapseSpaces(TrimLeft(s))
         ELSE CharAt(s, 1) \o CollapseSpaces(Suffix(s, 2))

(***************************************************************************)
(* Configuration (config.setDefaults and the sample configuration)         *)
(***************************************************************************)
SimilarityThreshold == R(85, 100)
DefaultLimit == 10
EnableLowercase == TRUE
EnableStopwords == TRUE
RemoveLegalSuffixes == TRUE
NormalizeInitialsOpt == TRUE
ClusteringFields == <<"name", "zip">>
DefaultClusterID == "default"

(***************************************************************************)
(* Normalizer                                                              *)
(***************************************************************************)
Stopwords ==
    {"a", "an", "the", "and", "but", "if", "or", "because", "as", "until",
     "while", "of", "at", "by", "for", "with", "about", "against", "between",
     "into", "through", "during", "before", "after", "above", "below", "to",
     "from", "up", "down", "in", "out", "on", "off", "over", "under", "again",
     "further", "then", "once", "here", "there", "when", "where", "why",
     "how", "all", "any", "both", "each", "few", "more", "most", "other",
     "some", "such", "no", "nor", "not", "only", "own", "same", "so", "than",
     "too", "very", "can", "will", "just", "should", "now"}

\* the strings the alternation of legalSuffixRegex matches
LegalSuffixes ==
    {"inc", "inc.", "incorporated", "corp", "corp.", "corporation", "llc",
     "ltd", "ltd.", "limited", "llp", "l.l.p", "l.l.p.", "pllc", "p.l.l.c",
     "p.l.l.c.", "pc", "p.c", "p.c."}

NormalizeText(text) ==
    IF text = "" THEN ""
    ELSE LET t1 == IF EnableLowercase THEN ToLower(text) ELSE text
             t2 == CollapseSpaces(TrimSpace(t1))
             words == Fields(t2)
             filtered == SelectSeq(words, LAMBDA w : ToLower(w) \notin Stopwords)
         IN  IF EnableStopwords THEN Join(filtered, " ") ELSE t2

\* legalSuffixRegex.ReplaceAllString(name, ""): the leftmost match of
\* \s+(suffix)$ is the longest suffix that follows a space, with its spaces
CutLegalSuffix(name, cands) ==
    IF cands = {} THEN name
    ELSE TrimRight(Prefix(name, Len(name) - Len(
             CHOOSE t \in cands : \A u \in cands : Len(u) <= Len(t))))

StripLegalSuffix(name) ==
    CutLegalSuffix(name, {t \in LegalSuffixes :
                            /\ Len(name) > Len(t)
                            /\ IsSpace(CharAt(name, Len(name) - Len(t)))
                            /\ ToLower(Suffix(name, Len(name) - Len(t) + 1)) = t})

\* initialsRegex \b([A-Z])\.?\b replaced by $1: the period after a lone
\* capital is dropped only where a word character follows the period
RECURSIVE StripInitials(_, _)
StripInitials(s, i) ==
    IF i > Len(s) THEN ""
    ELSE IF /\ IsUpper(CharAt(s, i))
            /\ (i = 1 \/ ~IsWordChar(CharAt(s, i - 1)))
            /\ i + 2 <= Len(s)
            /\ CharAt(s, i + 1) = "."
            /\ IsWordChar(CharAt(s, i + 2))
         THEN CharAt(s, i) \o StripInitials(s, i + 2)
         ELSE CharAt(s, i) \o StripInitials(s, i + 1)

NormalizeName(name) ==
    IF name = "" THEN ""
    ELSE LET n1 == NormalizeText(name)
             n2 == IF RemoveLegalSuffixes THEN StripLegalSuffix(n1) ELSE n1
             n3 == IF NormalizeInitialsOpt THEN StripInitials(n2, 1) ELSE n2
         IN  TrimSpace(n3)

NormalizeZip(zip) ==
    IF zip = "" THEN ""
    ELSE LET z == KeepChars(zip, DigitChars \o LowerChars \o UpperChars)
         IN  IF Len(z) >= 5 /\ IsDigit(CharAt(z, 1)) THEN Prefix(z, 5) ELSE z

\* n.streetAbbreviations
streetAbbreviations ==
    [word \in {"street", "avenue", "boulevard", "road", "lane", "drive", "court", "square",
               "parkway"} |->
        CASE word = "street" -> "st"
          [] word = "avenue" -> "ave"
          [] word = "boulevard" -> "blvd"
          [] word = "road" -> "rd"
          [] word = "lane" -> "ln"
          [] word = "drive" -> "dr"
          [] word = "court" -> "ct"
          [] word = "square" -> "sq"
          [] word = "parkway" -> "pkwy"]

\* a match of (?i)\bword\b at index i of s
WordAt(s, i, word) ==
    /\ i + Len(word) - 1 <= Len(s)
    /\ ToLower(SubSeq(s, i, i + Len(word) - 1)) = word
    /\ i = 1 \/ ~IsWordChar(CharAt(s, i - 1))
    /\ i + Len(word) > Len(s) \/ ~IsWordChar(CharAt(s, i + Len(word)))

\* regexp (?i)\bword\b\.? replaced by abbr everywhere in s, from index i on
RECURSIVE ReplaceWord(_, _, _, _)
ReplaceWord(s, i, word, abbr) ==
    IF i > Len(s) THEN ""
    ELSE IF WordAt(s, i, word)
         THEN abbr \o ReplaceWord(s, IF HasCharAt(s, i + Len(word), ".")
                                     THEN i + Len(word) + 1 ELSE i + Len(word), word, abbr)
         ELSE CharAt(s, i) \o ReplaceWord(s, i + 1, word, abbr)

\* the loop over n.streetAbbreviations in the order given
RECURSIVE ReplaceWords(_, _)
ReplaceWords(s, words) ==
    IF words = <<>> THEN s
    ELSE ReplaceWords(ReplaceWord(s, 1, Head(words), streetAbbreviations[Head(words)]),
                      Tail(words))

\* the words of n.streetAbbreviations that occur in s: the replacement of
\* the others changes nothing, whatever its place in the iteration
WordsIn(s) == {word \in DOMAIN streetAbbreviations : ContainsStr(ToLower(s), word)}

\* the strings the alternation of apartmentRegex matches
ApartmentWords == {"apt", "apartment", "ste", "suite", "unit", "#"}
TokenChars == LowerChars \o UpperChars \o DigitChars \o "-"

\* the index after the match of (apt|...)\.?\s+[a-z0-9-]+ that starts at
\* index j of s with the alternative word, 0 when there is none
ApartmentEnd(s, j, word) ==
    IF j + Len(word) - 1 <= Len(s) /\ ToLower(SubSeq(s, j, j + Len(word) - 1)) = word
    THEN LET k == IF HasCharAt(s, j + Len(word), ".") THEN j + Len(word) + 1
                  ELSE j + Len(word)
             t == SkipChars(s, " ", k)
         IN  IF t > k /\ SkipChars(s, TokenChars, t) > t THEN SkipChars(s, TokenChars, t)
             ELSE 0
    ELSE 0

\* the index after the match of apartmentRegex that starts at index i of s,
\* 0 when there is none: no alternative is a prefix of another one
ApartmentMatchEnd(s, i) ==
    IF SkipChars(s, " ", i) > i
    THEN LET ends == {ApartmentEnd(s, SkipChars(s, " ", i), word) : word \in ApartmentWords}
         IN  CHOOSE e \in ends : \A f \in ends : f <= e
    ELSE 0

\* apartmentRegex.ReplaceAllString(s, ""), from index i on
RECURSIVE RemoveApartments(_, _)
RemoveApartments(s, i) ==
    IF i > Len(s) THEN ""
    ELSE IF ApartmentMatchEnd(s, i) > 0 THEN RemoveApartments(s, ApartmentMatchEnd(s, i))
    ELSE CharAt(s, i) \o RemoveApartments(s, i + 1)

StandardizeAbbreviations == TRUE
RemoveApartmentNumbers == TRUE
E164Format == TRUE
LowercaseDomain == TRUE

\* the results of NormalizeAddress: the iteration over the map
\* streetAbbreviations takes any order
NormalizeAddress(address) ==
    IF address = "" THEN {""}
    ELSE {TrimSpace(IF RemoveApartmentNumbers THEN RemoveApartments(a, 1) ELSE a) :
            a \in IF StandardizeAbbreviations
                  THEN {ReplaceWords(NormalizeText(address), order) :
                          order \in Perms(WordsIn(NormalizeText(address)))}
                  ELSE {NormalizeText(address)}}

\* separators* followed by n digits at the head of s: the digits and the
\* rest of s, or <<>> when s does not start so
DigitGroup(s, separators, n) ==
    LET k == SkipChars(s, separators, 1)
    IN  IF k + n - 1 <= Len(s) /\ AllIn(SubSeq(s, k, k + n - 1), DigitChars)
        THEN <<SubSeq(s, k, k + n - 1), Suffix(s, k + n)>>
        ELSE <<>>

\* the groups 2 to 4 of phoneRegex matched against s up to its end
PhoneGroups(s) ==
    LET g2 == DigitGroup(s, "-. (", 3)
        g3 == IF g2 = <<>> THEN <<>> ELSE DigitGroup(g2[2], "-. )", 3)
        g4 == IF g3 = <<>> THEN <<>> ELSE DigitGroup(g3[2], "-. ", 4)
    IN  IF g4 # <<>> /\ g4[2] = "" THEN <<g2[1], g3[1], g4[1]>> ELSE <<>>

\* phoneRegex.FindStringSubmatch(phone) without the whole match: the
\* country code has the digits the three other groups leave, so at most
\* one of its lengths matches; <<>> for nil
PhoneSubmatch(phone) ==
    LET plus == IF phone # "" /\ CharAt(phone, 1) = "+" THEN 1 ELSE 0
        body == Suffix(phone, plus + 1)
        lens == {c \in (IF plus = 1 THEN 1 ELSE 0)..3 :
                    /\ c <= Len(body)
                    /\ AllIn(Prefix(body, c), DigitChars)
                    /\ PhoneGroups(Suffix(body, c + 1)) # <<>>}
    IN  IF lens = {} THEN <<>>
        ELSE LET c == CHOOSE c \in lens : \A d \in lens : d <= c
             IN  <<Prefix(body, c)>> \o PhoneGroups(Suffix(body, c + 1))

NormalizePhone(phone) ==
    IF phone = "" THEN ""
    ELSE IF CharAt(phone, 1) = "+" /\ Len(phone) >= 8 /\ Len(phone) <= 15 THEN phone
    ELSE LET matches == PhoneSubmatch(phone)
         IN  IF matches = <<>> THEN phone
             ELSE IF E164Format
                  THEN "+" \o (IF matches[1] = "" THEN "1" ELSE matches[1]) \o matches[2]
                       \o matches[3] \o matches[4]
                  ELSE phone

\* emailRegex.MatchString(email)
EmailMatches(email) ==
    LET at == IndexOf(email, "@")
        domain == Suffix(email, at + 1)
        dot == LastIndexOf(domain, ".")
    IN  /\ at > 1
        /\ AllIn(Prefix(email, at - 1), LowerChars \o UpperChars \o DigitChars \o "._%+-")
        /\ dot > 1
        /\ AllIn(Prefix(domain, dot - 1), LowerChars \o UpperChars \o DigitChars \o ".-")
        /\ Len(domain) - dot >= 2
        /\ AllIn(Suffix(domain, dot + 1), LowerChars \o UpperChars)

NormalizeEmail(email) ==
    IF email = "" THEN ""
    ELSE IF ~EmailMatches(email) THEN email
    ELSE IF LowercaseDomain /\ Len(Split(email, "@")) = 2
         THEN Split(email, "@")[1] \o "@" \o ToLower(Split(email, "@")[2])
         ELSE email

\* n.stateCodes
stateCodes ==
    [name \in {"alabama", "alaska", "arizona", "arkansas", "california", "colorado",
               "connecticut", "delaware", "florida", "georgia", "hawaii", "idaho",
               "illinois", "indiana", "iowa", "kansas", "kentucky", "louisiana", "maine",
               "maryland", "massachusetts", "michigan", "minnesota", "mississippi",
               "missouri", "montana", "nebraska", "nevada", "new hampshire", "new jersey",
               "new mexico", "new york", "north carolina", "north dakota", "ohio",
               "oklahoma", "oregon", "pennsylvania", "rhode island", "south carolina",
               "south dakota", "tennessee", "texas", "utah", "vermont", "virginia",
               "washington", "west virginia", "wisconsin", "wyoming"} |->
        CASE name = "alabama" -> "AL" [] name = "alaska" -> "AK" [] name = "arizona" -> "AZ"
          [] name = "arkansas" -> "AR" [] name = "california" -> "CA"
          [] name = "colorado" -> "CO" [] name = "connecticut" -> "CT"
          [] name = "delaware" -> "DE" [] name = "florida" -> "FL" [] name = "georgia" -> "GA"
          [] name = "hawaii" -> "HI" [] name = "idaho" -> "ID" [] name = "illinois" -> "IL"
          [] name = "indiana" -> "IN" [] name = "iowa" -> "IA" [] name = "kansas" -> "KS"
          [] name = "kentucky" -> "KY" [] name = "louisiana" -> "LA" [] name = "maine" -> "ME"
          [] name = "maryland" -> "MD" [] name = "massachusetts" -> "MA"
          [] name = "michigan" -> "MI" [] name = "minnesota" -> "MN"
          [] name = "mississippi" -> "MS" [] name = "missouri" -> "MO"
          [] name = "montana" -> "MT" [] name = "nebraska" -> "NE" [] name = "nevada" -> "NV"
          [] name = "new hampshire" -> "NH" [] name = "new jersey" -> "NJ"
          [] name = "new mexico" -> "NM" [] name = "new york" -> "NY"
          [] name = "north carolina" -> "NC" [] name = "north dakota" -> "ND"
          [] name = "ohio" -> "OH" [] name = "oklahoma" -> "OK" [] name = "oregon" -> "OR"
          [] name = "pennsylvania" -> "PA" [] name = "rhode island" -> "RI"
          [] name = "south carolina" -> "SC" [] name = "south dakota" -> "SD"
          [] name = "tennessee" -> "TN" [] name = "texas" -> "TX" [] name = "utah" -> "UT"
          [] name = "vermont" -> "VT" [] name = "virginia" -> "VA"
          [] name = "washington" -> "WA" [] name = "west virginia" -> "WV"
          [] name = "wisconsin" -> "WI" [] name = "wyoming" -> "WY"]

NormalizeState(state) ==
    IF state = "" THEN ""
    ELSE IF Len(state) = 2 THEN ToUpper(state)
    ELSE IF ToLower(state) \in DOMAIN stateCodes THEN stateCodes[ToLower(state)]
    ELSE state

\* The entities of the model carry the fields name and zip.
NormalizeEntity(entity) ==
    LET nm == IF "name" \in DOMAIN entity
              THEN [k \in {"name_normalized"} |-> NormalizeName(entity["name"])]
              ELSE <<>>
        zp == IF "zip" \in DOMAIN entity
              THEN [k \in {"zip_normalized"} |-> NormalizeZip(entity["zip"])]
              ELSE <<>>
    IN  nm @@ zp @@ entity

(***************************************************************************)
(* Similarity library                                                      *)
(***************************************************************************)
ExactMatchCompare(a, b) == IF a = b THEN ROne ELSE RZero

CaseInsensitiveCompare(a, b) == IF ToLower(a) = ToLower(b) THEN ROne ELSE RZero

\* the matching loop of jaro from index i of a: the matched indices of a and b
RECURSIVE JaroMatches(_, _, _, _, _, _)
JaroMatches(a, b, matchDistance, i, matchesA, matchesB) ==
    IF i > Len(a) THEN <<matchesA, matchesB>>
    ELSE LET start == Max(1, i - matchDistance)
             end == Min(i + matchDistance, Len(b))
             js == {j \in start..end : j \notin matchesB /\ CharAt(a, i) = CharAt(b, j)}
             j0 == CHOOSE j \in js : \A k \in js : j <= k
         IN  IF js = {} THEN JaroMatches(a, b, matchDistance, i + 1, matchesA, matchesB)
             ELSE JaroMatches(a, b, matchDistance, i + 1,
                              matchesA \cup {i}, matchesB \cup {j0})

\* the characters of s at the indices in idx, in index order
RECURSIVE Picked(_, _, _)
Picked(s, idx, i) ==
    IF i > Len(s) THEN ""
    ELSE (IF i \in idx THEN CharAt(s, i) ELSE "") \o Picked(s, idx, i + 1)

\* the score jaro computes from the matched indices mm of a and of b
JaroScore(a, b, mm, m) ==
    IF m = 0 THEN RZero
    ELSE RDiv(RAdd(RAdd(R(m, Len(a)), R(m, Len(b))),
                   RDiv(RSub(RInt(m),
                             R(Cardinality({k \in 1..m :
                                  CharAt(Picked(a, mm[1], 1), k)
                                     # CharAt(Picked(b, mm[2], 1), k)}), 2)),
                        RInt(m))),
              RInt(3))

\* jaro with a the shorter string
JaroOrdered(a, b, matchDistance) ==
    IF Len(a) = 0 THEN RZero
    ELSE JaroScore(a, b, JaroMatches(a, b, matchDistance, 1, {}, {}),
                   Cardinality(JaroMatches(a, b, matchDistance, 1, {}, {})[1]))

Jaro(a, b) ==
    IF a = b THEN ROne
    ELSE IF Len(a) > Len(b) THEN JaroOrdered(b, a, Max(0, (Len(a) \div 2) - 1))
    ELSE JaroOrdered(a, b, Max(0, (Len(b) \div 2) - 1))

PrefixLength == 4
PrefixScale == R(1, 10)

RECURSIVE CommonPrefixLen(_, _, _, _)
CommonPrefixLen(a, b, i, maxLen) ==
    IF i > maxLen \/ CharAt(a, i) # CharAt(b, i) THEN i - 1
    ELSE CommonPrefixLen(a, b, i + 1, maxLen)

\* the prefix bonus of JaroWinkler.Compare
WinklerBonus(jaroScore, prefixLen) ==
    RAdd(jaroScore, RMul(RMul(RInt(prefixLen), PrefixScale), RSub(ROne, jaroScore)))

JaroWinklerCompare(a, b) ==
    IF a = "" /\ b = "" THEN ROne
    ELSE IF a = "" \/ b = "" THEN RZero
    ELSE WinklerBonus(Jaro(a, b),
                      CommonPrefixLen(a, b, 1, Min(PrefixLength, Min(Len(a), Len(b)))))

\* tokenize: the lower-cased maximal runs of letters and digits, as a set
RECURSIVE TokenSet(_, _)
TokenSet(s, cur) ==
    IF s = "" THEN (IF cur = "" THEN {} ELSE {ToLower(cur)})
    ELSE IF IsAlnum(CharAt(s, 1)) THEN TokenSet(Suffix(s, 2), cur \o CharAt(s, 1))
    ELSE (IF cur = "" THEN {} ELSE {ToLower(cur)}) \cup TokenSet(Suffix(s, 2), "")

JaccardCompare(a, b) ==
    IF a = "" /\ b = "" THEN ROne
    ELSE IF a = "" \/ b = "" THEN RZero
    ELSE LET setA == TokenSet(a, "")
             setB == TokenSet(b, "")
         IN  R(Cardinality(setA \cap setB), Cardinality(setA \cup setB))

\* ContainedIn{IgnoreCase: true}
ContainedInCompare(a0, b0) ==
    IF a0 = "" /\ b0 = "" THEN ROne
    ELSE IF a0 = "" \/ b0 = "" THEN RZero
    ELSE LET a == ToLower(a0)
             b == ToLower(b0)
         IN  IF ContainsStr(b, a) \/ ContainsStr(a, b)
             THEN R(Min(Len(a), Len(b)), Max(Len(a), Len(b)))
             ELSE RZero

NamePreprocess(name) == CollapseSpaces(TrimSpace(StripLegalSuffix(ToLower(name))))

\* NameSimilarity.Compare on the preprocessed names
NameScore(a, b) ==
    IF CaseInsensitiveCompare(a, b) = ROne THEN ROne
    ELSE RAdd(RAdd(RMul(JaroWinklerCompare(a, b), R(6, 10)),
                   RMul(JaccardCompare(a, b), R(3, 10))),
              RMul(ContainedInCompare(a, b), R(1, 10)))

NameSimilarityCompare(a, b) ==
    IF a = "" /\ b = "" THEN ROne
    ELSE IF a = "" \/ b = "" THEN RZero
    ELSE IF ExactMatchCompare(a, b) = ROne THEN ROne
    ELSE NameScore(NamePreprocess(a), NamePreprocess(b))

\* ZipCodeSimilarity.Compare on the digits of the two codes
ZipScore(aDigits, bDigits, matchingDigits) ==
    IF aDigits = "" /\ bDigits = "" THEN ROne
    ELSE IF aDigits = "" \/ bDigits = "" THEN RZero
    ELSE IF aDigits = bDigits THEN ROne
    ELSE IF matchingDigits = 0 THEN RZero
    ELSE IF matchingDigits >= 5 THEN R(95, 100)
    ELSE IF matchingDigits >= 3 THEN R(8, 10)
    ELSE R(5, 10)

ZipCodeSimilarityCompare(a, b) ==
    IF a = "" /\ b = "" THEN ROne
    ELSE IF a = "" \/ b = "" THEN RZero
    ELSE ZipScore(KeepChars(a, DigitChars), KeepChars(b, DigitChars),
                  CommonPrefixLen(KeepChars(a, DigitChars), KeepChars(b, DigitChars), 1,
                                  Min(5, Min(Len(KeepChars(a, DigitChars)),
                                             Len(KeepChars(b, DigitChars))))))

\* the row of the matrix of Levenshtein.distance after prev, for the
\* character c of the first string
RECURSIVE LevenshteinRow(_, _, _, _)
LevenshteinRow(prev, c, s2, row) ==
    IF Len(row) = Len(s2) + 1 THEN row
    ELSE LevenshteinRow(prev, c, s2,
             Append(row, Min(Min(prev[Len(row) + 1] + 1, row[Len(row)] + 1),
                             prev[Len(row)] + (IF c = CharAt(s2, Len(row)) THEN 0 ELSE 1))))

\* Levenshtein.distance: the last cell of the matrix, prev its row i - 1
RECURSIVE LevenshteinDistance(_, _, _, _)
LevenshteinDistance(s1, s2, i, prev) ==
    IF i > Len(s1) THEN prev[Len(s2) + 1]
    ELSE LevenshteinDistance(s1, s2, i + 1,
                             LevenshteinRow(prev, CharAt(s1, i), s2, <<prev[1] + 1>>))

LevenshteinCompare(a, b) ==
    IF a = "" /\ b = "" THEN ROne
    ELSE IF a = "" \/ b = "" THEN RZero
    ELSE RSub(ROne, R(LevenshteinDistance(a, b, 1, [j \in 1..(Len(b) + 1) |-> j - 1]),
                      Max(Len(a), Len(b))))

\* tokenize: the lowercased runs of letters and digits of s, in order
RECURSIVE tokenize(_, _)
tokenize(s, cur) ==
    IF s = "" THEN (IF cur = "" THEN <<>> ELSE <<ToLower(cur)>>)
    ELSE IF IsAlnum(CharAt(s, 1)) THEN tokenize(Suffix(s, 2), cur \o CharAt(s, 1))
    ELSE (IF cur = "" THEN <<>> ELSE <<ToLower(cur)>>) \o tokenize(Suffix(s, 2), "")

\* the term frequencies of a list of tokens
TermCounts(tokens) ==
    [t \in {tokens[i] : i \in 1..Len(tokens)} |->
        Cardinality({i \in 1..Len(tokens) : tokens[i] = t})]

\* the sum of vecA[t] * vecB[t] over the tokens t of S
RECURSIVE DotProduct(_, _, _)
DotProduct(S, vecA, vecB) ==
    IF S = {} THEN 0
    ELSE LET t == CHOOSE u \in S : TRUE
         IN  vecA[t] * vecB[t] + DotProduct(S \ {t}, vecA, vecB)

\* the largest integer whose square is at most n, by bisection of lo..hi
\* with lo * lo <= n < hi * hi
RECURSIVE Bisect(_, _, _)
Bisect(n, lo, hi) ==
    IF hi - lo <= 1 THEN lo
    ELSE IF ((lo + hi) \div 2) * ((lo + hi) \div 2) <= n THEN Bisect(n, (lo + hi) \div 2, hi)
    ELSE Bisect(n, lo, (lo + hi) \div 2)

\* the squares of the integers from 46341 on exceed the 32-bit integers
IntSqrt(n) == Bisect(n, 0, Min(n + 1, 46341))

\* the decimals of the square root kept when it is not an integer
SqrtScale == 100

\* dotProduct / (magA * magB) from the squares of the magnitudes: exact
\* when their product is a square, else with the root cut to two decimals;
\* the rounding of the float operations is not part of the model
CosineQuotient(dotProduct, sqA, sqB) ==
    IF sqA = 0 \/ sqB = 0 THEN RZero
    ELSE IF IntSqrt(sqA * sqB) * IntSqrt(sqA * sqB) = sqA * sqB
         THEN R(dotProduct, IntSqrt(sqA * sqB))
         ELSE R(dotProduct * SqrtScale, IntSqrt(sqA * sqB * SqrtScale * SqrtScale))

CosineVectors(vecA, vecB) ==
    CosineQuotient(DotProduct(DOMAIN vecA \cap DOMAIN vecB, vecA, vecB),
                   DotProduct(DOMAIN vecA, vecA, vecA), DotProduct(DOMAIN vecB, vecB, vecB))

CosineCompare(a, b) ==
    IF a = "" /\ b = "" THEN ROne
    ELSE IF a = "" \/ b = "" THEN RZero
    ELSE CosineVectors(TermCounts(tokenize(a, "")), TermCounts(tokenize(b, "")))

\* getLastN
getLastN(s, n) == IF Len(s) <= n THEN s ELSE Suffix(s, Len(s) - n + 1)

\* the digits at the ends of a and b that agree, counted from the last
RECURSIVE MatchingFromEnd(_, _, _)
MatchingFromEnd(a, b, i) ==
    IF i > Min(Len(a), Len(b)) \/ CharAt(a, Len(a) - i + 1) # CharAt(b, Len(b) - i + 1)
    THEN i - 1
    ELSE MatchingFromEnd(a, b, i + 1)

\* PhoneSimilarity.Compare on the digits of the two numbers
PhoneScore(aDigits, bDigits, matchingDigits) ==
    IF aDigits = "" /\ bDigits = "" THEN ROne
    ELSE IF aDigits = "" \/ bDigits = "" THEN RZero
    ELSE IF aDigits = bDigits THEN ROne
    ELSE IF matchingDigits >= 10 THEN ROne
    ELSE IF matchingDigits >= 7 THEN R(9, 10)
    ELSE IF matchingDigits >= 4 THEN R(7, 10)
    ELSE R(matchingDigits, 10)

PhoneSimilarityCompare(a, b) ==
    IF a = "" /\ b = "" THEN ROne
    ELSE IF a = "" \/ b = "" THEN RZero
    ELSE PhoneScore(KeepChars(a, DigitChars), KeepChars(b, DigitChars),
                    MatchingFromEnd(getLastN(KeepChars(a, DigitChars), 10),
                                    getLastN(KeepChars(b, DigitChars), 10), 1))

\* emailPartsRegex ^([^@]+)@(.+)$: the user and the domain, <<>> for nil
EmailParts(email) ==
    IF IndexOf(email, "@") > 1 /\ IndexOf(email, "@") < Len(email)
    THEN <<Prefix(email, IndexOf(email, "@") - 1), Suffix(email, IndexOf(email, "@") + 1)>>
    ELSE <<>>

\* EmailSimilarity.Compare on the parts of two addresses
EmailPartsScore(aMatch, bMatch) ==
    IF CaseInsensitiveCompare(aMatch[2], bMatch[2]) # ROne
    THEN RMul(CaseInsensitiveCompare(aMatch[2], bMatch[2]), R(3, 10))
    ELSE RAdd(RMul(JaroWinklerCompare(aMatch[1], bMatch[1]), R(4, 10)),
              RMul(CaseInsensitiveCompare(aMatch[2], bMatch[2]), R(6, 10)))

EmailSimilarityCompare(a, b) ==
    IF a = "" /\ b = "" THEN ROne
    ELSE IF a = "" \/ b = "" THEN RZero
    ELSE IF ExactMatchCompare(a, b) = ROne THEN ROne
    ELSE IF CaseInsensitiveCompare(a, b) = ROne THEN R(99, 100)
    ELSE IF EmailParts(a) = <<>> \/ EmailParts(b) = <<>> THEN JaroWinklerCompare(a, b)
    ELSE EmailPartsScore(EmailParts(a), EmailParts(b))

\* f.streetTypes, and the alternatives of streetTypeRegex: all of them,
\* and those followed by \.?
streetTypes ==
    [k \in {"street", "st", "avenue", "ave", "boulevard", "blvd", "road", "rd", "drive",
            "dr", "lane", "ln", "court", "ct", "circle", "cir", "place", "pl", "way",
            "parkway", "pkwy", "highway", "hwy"} |->
        CASE k \in {"street", "st"} -> "st"
          [] k \in {"avenue", "ave"} -> "ave"
          [] k \in {"boulevard", "blvd"} -> "blvd"
          [] k \in {"road", "rd"} -> "rd"
          [] k \in {"drive", "dr"} -> "dr"
          [] k \in {"lane", "ln"} -> "ln"
          [] k \in {"court", "ct"} -> "ct"
          [] k \in {"circle", "cir"} -> "cir"
          [] k \in {"place", "pl"} -> "pl"
          [] k = "way" -> "way"
          [] k \in {"parkway", "pkwy"} -> "pkwy"
          [] k \in {"highway", "hwy"} -> "hwy"]
StreetTypeWords == DOMAIN streetTypes \cup {"expressway", "expy"}
StreetTypeDotted == {"st", "ave", "blvd", "rd", "dr", "ln", "ct", "cir", "pl", "pkwy", "hwy", "expy"}

\* f.directions, and the alternatives of directionalRegex
directions ==
    [k \in {"north", "n", "south", "s", "east", "e", "west", "w", "ne", "nw", "se", "sw"} |->
        CASE k \in {"north", "n"} -> "n"
          [] k \in {"south", "s"} -> "s"
          [] k \in {"east", "e"} -> "e"
          [] k \in {"west", "w"} -> "w"
          [] OTHER -> k]
DirectionWords == DOMAIN directions
DirectionDotted == {"n", "s", "e", "w"}

\* the function given to ReplaceAllStringFunc: the abbreviation of a key of
\* the map contained in the match, the keys taken in any order
Abbreviations(match, table) ==
    IF \E k \in DOMAIN table : ContainsStr(ToLower(match), k)
    THEN {table[k] : k \in {k0 \in DOMAIN table : ContainsStr(ToLower(match), k0)}}
    ELSE {ToLower(match)}

WordChars == LowerChars \o UpperChars \o DigitChars \o "_"

\* the results of ReplaceAllStringFunc for the regexp (?i)\b(words)\b from
\* index i of s on. Both ends of a match are word boundaries, so a match
\* is a whole run of word characters, with the period after it when the
\* alternative has \.? and a word character follows the period.
RECURSIVE ReplaceMatches(_, _, _, _, _)
ReplaceMatches(s, i, words, dotted, table) ==
    IF i > Len(s) THEN {""}
    ELSE IF ~IsWordChar(CharAt(s, i))
    THEN {CharAt(s, i) \o rest : rest \in ReplaceMatches(s, i + 1, words, dotted, table)}
    ELSE LET e == SkipChars(s, WordChars, i)
             run == SubSeq(s, i, e - 1)
             dot == /\ ToLower(run) \in dotted
                    /\ HasCharAt(s, e, ".")
                    /\ e + 1 <= Len(s)
                    /\ IsWordChar(CharAt(s, e + 1))
         IN  IF ToLower(run) \in words
             THEN {abbr \o rest :
                     abbr \in Abbreviations(IF dot THEN run \o "." ELSE run, table),
                     rest \in ReplaceMatches(s, IF dot THEN e + 1 ELSE e, words, dotted,
                                             table)}
             ELSE {run \o rest : rest \in ReplaceMatches(s, e, words, dotted, table)}

\* the results of AddressSimilarity.preprocess
preprocess(address) ==
    {CollapseSpaces(TrimSpace(a3)) :
        a3 \in UNION {ReplaceMatches(a2, 1, DirectionWords, DirectionDotted, directions) :
                        a2 \in ReplaceMatches(RemoveApartments(ToLower(address), 1), 1,
                                              StreetTypeWords, StreetTypeDotted,
                                              streetTypes)}}

\* the index of the first digit of s from i on, Len(s) + 1 when there is
\* none
RECURSIVE FirstDigit(_, _)
FirstDigit(s, i) == IF i > Len(s) \/ IsDigit(CharAt(s, i)) THEN i ELSE FirstDigit(s, i + 1)

\* numericRegex.FindAllString(s, -1)[0], "" when there is no digit
FirstNumber(s) == SubSeq(s, FirstDigit(s, 1), SkipChars(s, DigitChars, FirstDigit(s, 1)) - 1)

\* AddressSimilarity.Compare on two preprocessed addresses
AddressScore(a, b) ==
    IF CaseInsensitiveCompare(a, b) = ROne THEN ROne
    ELSE RMul(RAdd(RAdd(RMul(JaccardCompare(a, b), R(5, 10)),
                        RMul(JaroWinklerCompare(a, b), R(2, 10))),
                   RMul(ContainedInCompare(a, b), R(3, 10))),
              IF FirstNumber(a) # "" /\ FirstNumber(b) # "" /\ FirstNumber(a) # FirstNumber(b)
              THEN R(3, 10) ELSE ROne)

\* the results of AddressSimilarity.Compare
AddressSimilarityCompare(a, b) ==
    IF a = "" /\ b = "" THEN {ROne}
    ELSE IF a = "" \/ b = "" THEN {RZero}
    ELSE IF ExactMatchCompare(a, b) = ROne THEN {ROne}
    ELSE {AddressScore(pa, pb) : pa \in preprocess(a), pb \in preprocess(b)}

\* Function.Compare of the comparator with the given Name()
Compare(simFn, a, b) ==
    CASE simFn = "NameSimilarity" -> NameSimilarityCompare(a, b)
      [] simFn = "ZipCodeSimilarity" -> ZipCodeSimilarityCompare(a, b)
      [] simFn = "JaroWinkler" -> JaroWinklerCompare(a, b)
      [] simFn = "ExactMatch" -> ExactMatchCompare(a, b)

\* Registry.GetByFieldType
GetByFieldType(fieldType0) ==
    LET fieldType == ToLower(fieldType0)
    IN  CASE fieldType \in {"name", "business_name", "person_name", "company", "organization"} ->
                "NameSimilarity"
          [] fieldType \in {"address", "street", "street_address", "mailing_address"} ->
                "AddressSimilarity"
          [] fieldType \in {"phone", "phone_number", "telephone", "mobile", "cell", "fax"} ->
                "PhoneSimilarity"
          [] fieldType \in {"email", "email_address"} -> "EmailSimilarity"
          [] fieldType \in {"zip", "zipcode", "postal_code", "postal"} -> "ZipCodeSimilarity"
          [] OTHER -> "JaroWinkler"

inferSimilarityFunction(fieldName) ==
    LET has(subs) == \E sub \in subs : ContainsStr(ToLower(fieldName), sub)
    IN  IF has({"name", "company", "business", "organization"}) THEN "NameSimilarity"
        ELSE IF has({"address", "street"}) THEN "AddressSimilarity"
        ELSE IF has({"phone", "tel", "mobile", "cell", "fax"}) THEN "PhoneSimilarity"
        ELSE IF has({"email"}) THEN "EmailSimilarity"
        ELSE IF has({"zip", "postal"}) THEN "ZipCodeSimilarity"
        ELSE "JaroWinkler"

(***************************************************************************)
(* Go maps and records                                                     *)
(***************************************************************************)
\* m[k] of a Go map[string]string: the empty string when k is absent
Get(m, k) == IF k \in DOMAIN m THEN m[k] ELSE ""

EmptyMap == <<>>

\* weaviate.EntityRecord; ClusterID is Metadata["cluster_id"], "" when absent
EntityRecord(id, name, nameNorm, zip, zipNorm, vector, clusterID) ==
    [ID |-> id, Name |-> name, NameNormalized |-> nameNorm, Zip |-> zip,
     ZipNormalized |-> zipNorm, Vector |-> vector, ClusterID |-> clusterID]

convertToWeaviateEntity(id, fields, vector) ==
    EntityRecord(id, Get(fields, "name"), Get(fields, "name_normalized"),
                 Get(fields, "zip"), Get(fields, "zip_normalized"), vector, "")

(***************************************************************************)
(* Cluster service                                                         *)
(***************************************************************************)
\* hex.EncodeToString(md5.Sum(key))[:16]
Md5Hex16(key) == "md5:" \o key

extractDigits(s) == KeepChars(s, DigitChars)

\* the blocking-key component of one field
KeyComponent(field, normalizedField) ==
    CASE field = "name" -> Prefix(normalizedField, Min(3, Len(normalizedField)))
      [] field = "zip" -> Prefix(normalizedField, Min(5, Len(normalizedField)))
      [] field = "phone" ->
            LET digits == extractDigits(normalizedField)
            IN  IF Len(digits) >= 4 THEN Suffix(digits, Len(digits) - 3) ELSE digits
      [] field = "email" ->
            LET parts == Split(normalizedField, "@")
            IN  IF Len(parts) = 2 THEN parts[2] ELSE normalizedField
      [] OTHER -> Prefix(normalizedField, Min(3, Len(normalizedField)))

\* the configured fields present in the map; ClusteringFields is already in
\* the order sort.Strings gives
BlockingFieldNames(fields) == SelectSeq(ClusteringFields, LAMBDA f : f \in DOMAIN fields)

RECURSIVE CacheKeyOf(_, _)
CacheKeyOf(fieldNames, fields) ==
    IF fieldNames = <<>> THEN ""
    ELSE Head(fieldNames) \o ":" \o fields[Head(fieldNames)] \o "|"
         \o CacheKeyOf(Tail(fieldNames), fields)

\* a non-empty key component with its separator
KeyPart(keyComponent) == IF keyComponent # "" THEN keyComponent \o "|" ELSE ""

\* the normalized value of a field when there is one, the raw value otherwise
NormalizedOrRaw(norm, raw) == IF norm = "" THEN raw ELSE norm

RECURSIVE BlockingKeyOf(_, _)
BlockingKeyOf(fieldNames, fields) ==
    IF fieldNames = <<>> THEN ""
    ELSE KeyPart(KeyComponent(Head(fieldNames),
                              NormalizedOrRaw(Get(fields, Head(fieldNames) \o "_normalized"),
                                              fields[Head(fieldNames)])))
         \o BlockingKeyOf(Tail(fieldNames), fields)

\* the cluster ID of a blocking key
ClusterIDOf(key) == IF key = "" \/ key = "|" THEN DefaultClusterID ELSE Md5Hex16(key)

\* the cluster ID computed from the fields alone, as with an empty key cache
ComputeClusterKey(fields) == ClusterIDOf(BlockingKeyOf(BlockingFieldNames(fields), fields))

\* GenerateClusterKey once the cache key is built: the cached ID, or the
\* computed one, which is cached unless it is the default
LookupOrCompute(cache, cacheKey, clusterID) ==
    IF cacheKey \in DOMAIN cache THEN [id |-> cache[cacheKey], cache |-> cache]
    ELSE IF clusterID = DefaultClusterID THEN [id |-> DefaultClusterID, cache |-> cache]
    ELSE [id |-> clusterID,
          cache |-> [k \in DOMAIN cache \cup {cacheKey} |->
                        IF k = cacheKey THEN clusterID ELSE cache[k]]]

\* GenerateClusterKey: the cluster ID returned and the key cache afterwards
GenerateClusterKey(enabled, cache, fields) ==
    IF ~enabled \/ Len(ClusteringFields) = 0
    THEN [id |-> DefaultClusterID, cache |-> cache]
    ELSE LookupOrCompute(cache, CacheKeyOf(BlockingFieldNames(fields), fields),
                         ComputeClusterKey(fields))

\* the field map AssignCluster builds from an entity record
RecordFields(entity) ==
    [k \in {"name", "name_normalized", "zip", "zip_normalized"} |->
        CASE k = "name" -> entity.Name
          [] k = "name_normalized" -> entity.NameNormalized
          [] k = "zip" -> entity.Zip
          [] k = "zip_normalized" -> entity.ZipNormalized]

\* the entity with the generated cluster ID in its metadata
WithCluster(entity, g) ==
    [entity |-> [entity EXCEPT !.ClusterID = g.id], id |-> g.id, cache |-> g.cache]

\* AssignCluster: the entity with its cluster ID set, and the key cache afterwards
AssignCluster(enabled, cache, entity) ==
    IF ~enabled THEN [entity |-> entity, id |-> DefaultClusterID, cache |-> cache]
    ELSE WithCluster(entity, GenerateClusterKey(enabled, cache, RecordFields(entity)))

\* GetClusterFilterForEntity: the cluster ID to filter on, "" for no filter
GetClusterFilterForEntity(enabled, entity) ==
    IF ~enabled THEN ""
    ELSE IF entity.ClusterID = "" \/ entity.ClusterID = DefaultClusterID THEN ""
    ELSE entity.ClusterID

(***************************************************************************)
(* Vector store                                                            *)
(***************************************************************************)
\* cosine distance of two vectors
Distance(v, w) == R(Abs(v - w), 10)

\* SearchEntities: the possible answers to a k-NN query, nearest first, at
\* most limit of the entities that pass the filter (filter "" is no filter);
\* the order of equidistant entities is the store's choice
SearchEntities(st, vector, limit, filter) ==
    LET cands == {id \in DOMAIN st : filter = "" \/ st[id].ClusterID = filter}
        dist(id) == Distance(vector, st[id].Vector)
        ordered == {p \in Perms(cands) :
                      \A i \in 1..(Len(p) - 1) : RLeq(dist(p[i]), dist(p[i + 1]))}
        k == Min(limit, Cardinality(cands))
    IN  {[i \in 1..k |-> [entity |-> st[p[i]], distance |-> dist(p[i])]] : p \in ordered}

(***************************************************************************)
(* Match service: queries                                                  *)
(***************************************************************************)
RawFieldNames == {"name", "address", "city", "state", "zip", "phone", "email"}

Options(limit, threshold, useClustering, includeFieldScores, fieldWeights, fieldTypeMappings, forceExactMatchFields) ==
    [Limit |-> limit, Threshold |-> threshold, UseClustering |-> useClustering,
     IncludeFieldScores |-> includeFieldScores, FieldWeights |-> fieldWeights,
     FieldTypeMappings |-> fieldTypeMappings,
     ForceExactMatchFields |-> forceExactMatchFields]

\* the field=value pairs of parseQueryFields applied in order, later pairs
\* overwriting earlier ones
RECURSIVE ParsePairs(_, _)
ParsePairs(pairs, fields) ==
    IF pairs = <<>> THEN fields
    ELSE LET pair == TrimSpace(Head(pairs))
             parts == SplitN2(pair, "=")
             fieldName == TrimSpace(parts[1])
             fieldValue == TrimSpace(parts[2])
         IN  IF pair = "" \/ Len(parts) # 2 THEN ParsePairs(Tail(pairs), fields)
             ELSE IF fieldName # "" /\ fieldValue # ""
             THEN ParsePairs(Tail(pairs),
                             [k \in {fieldName} |-> fieldValue] @@ fields)
             ELSE ParsePairs(Tail(pairs), fields)

parseQueryFields(text) ==
    IF ~ContainsChar(text, "=") THEN EmptyMap
    ELSE IF ContainsChar(text, ";") THEN ParsePairs(Split(text, ";"), EmptyMap)
    ELSE IF ContainsChar(text, ",") THEN ParsePairs(Split(text, ","), EmptyMap)
    ELSE ParsePairs(<<text>>, EmptyMap)

\* convertToMatchResult: Metadata carries the distance of the search
convertToMatchResult(entity, score) ==
    LET raw == [k \in RawFieldNames |->
                  CASE k = "name" -> entity.Name
                    [] k = "zip" -> entity.Zip
                    [] OTHER -> ""]
        nn == IF entity.NameNormalized # ""
              THEN [k \in {"name_normalized"} |-> entity.NameNormalized] ELSE EmptyMap
        zn == IF entity.ZipNormalized # ""
              THEN [k \in {"zip_normalized"} |-> entity.ZipNormalized] ELSE EmptyMap
    IN  [ID |-> entity.ID, Score |-> score, Fields |-> nn @@ zn @@ raw,
         FieldScores |-> EmptyMap, HopDistance |-> 0]

\* the comparator computeFieldScores selects for a field
SelectSimFn(fieldName, opts) ==
    IF fieldName \in opts.ForceExactMatchFields THEN "ExactMatch"
    ELSE IF fieldName \in DOMAIN opts.FieldTypeMappings
    THEN GetByFieldType(opts.FieldTypeMappings[fieldName])
    ELSE inferSimilarityFunction(fieldName)

\* the sum of g[x] over x in S
RECURSIVE SumOver(_, _)
SumOver(S, g) ==
    IF S = {} THEN RZero
    ELSE LET x == CHOOSE y \in S : TRUE
         IN  RAdd(g[x], SumOver(S \ {x}, g))

\* computeWeightedScore taking 0 for a field without a weight
computeWeightedScore_NoDefault(fieldScores, fieldWeights) ==
    LET weight(f) == IF f \in DOMAIN fieldWeights THEN fieldWeights[f] ELSE RZero
        totalScore == SumOver(DOMAIN fieldScores,
                              [f \in DOMAIN fieldScores |->
                                  RMul(fieldScores[f].Score, weight(f))])
        totalWeight == SumOver(DOMAIN fieldScores,
                               [f \in DOMAIN fieldScores |-> weight(f)])
    IN  IF totalWeight = RZero THEN RZero ELSE RDiv(totalScore, totalWeight)

computeWeightedScore(fieldScores, fieldWeights) ==
    LET weight(f) == IF f \in DOMAIN fieldWeights THEN fieldWeights[f] ELSE ROne
        totalScore == SumOver(DOMAIN fieldScores,
                              [f \in DOMAIN fieldScores |->
                                  RMul(fieldScores[f].Score, weight(f))])
        totalWeight == SumOver(DOMAIN fieldScores,
                               [f \in DOMAIN fieldScores |-> weight(f)])
    IN  IF totalWeight = RZero THEN RZero ELSE RDiv(totalScore, totalWeight)

\* the FieldScore computeFieldScores records for one field: recorded is the
\* QueryValue it keeps
FieldScoreOf(simFn, queryValue, matchedValue, recorded) ==
    [Score |-> Compare(simFn, queryValue, matchedValue), QueryValue |-> recorded,
     MatchedValue |-> matchedValue, SimilarityFn |-> simFn]

\* the two loops of computeFieldScores: without query fields every non-empty
\* field of the match is compared with itself
FieldScoresOf(result, queryFields, opts) ==
    IF DOMAIN queryFields = {}
    THEN [f \in {g \in DOMAIN result.Fields : result.Fields[g] # ""} |->
            FieldScoreOf(SelectSimFn(f, opts), result.Fields[f], result.Fields[f], "")]
    ELSE [f \in {g \in DOMAIN queryFields :
                    queryFields[g] # "" /\ g \in DOMAIN result.Fields} |->
            FieldScoreOf(SelectSimFn(f, opts), queryFields[f], result.Fields[f],
                         queryFields[f])]

\* the end of computeFieldScores: the vector score and the weighted field
\* score are averaged when there are weights and field scores
BlendScores(result, fieldScores, fieldWeights) ==
    [result EXCEPT
        !.FieldScores = fieldScores,
        !.Score = IF DOMAIN fieldWeights # {} /\ DOMAIN fieldScores # {}
                  THEN RDiv(RAdd(result.Score,
                                 computeWeightedScore(fieldScores, fieldWeights)),
                            RInt(2))
                  ELSE result.Score]

computeFieldScores(result, queryFields, opts) ==
    BlendScores(result, FieldScoresOf(result, queryFields, opts), opts.FieldWeights)

\* the loop of FindMatches over the search results
RECURSIVE ConvertResults(_, _, _)
ConvertResults(results, queryFields, opts) ==
    IF results = <<>> THEN <<>>
    ELSE IF RLess(RSub(ROne, Head(results).distance), opts.Threshold)
    THEN ConvertResults(Tail(results), queryFields, opts)
    ELSE IF opts.IncludeFieldScores \/ DOMAIN queryFields # {}
    THEN <<computeFieldScores(
              convertToMatchResult(Head(results).entity,
                                   RSub(ROne, Head(results).distance)),
              queryFields, opts)>>
         \o ConvertResults(Tail(results), queryFields, opts)
    ELSE <<convertToMatchResult(Head(results).entity,
                                RSub(ROne, Head(results).distance))>>
         \o ConvertResults(Tail(results), queryFields, opts)

\* FindMatches without the sort
SortByScore_Unsorted(matchResults) == {matchResults}

\* sort.Slice by Score descending: the sort is not stable, so any order of
\* the results with non-increasing scores can come out
SortByScore(matchResults) ==
    {[i \in 1..Len(matchResults) |-> matchResults[p[i]]] :
        p \in {q \in Perms(1..Len(matchResults)) :
                 \A i \in 1..(Len(q) - 1) :
                    ~RLess(matchResults[q[i]].Score, matchResults[q[i + 1]].Score)}}

\* the options after FindMatches has applied the defaults
ResolveOptions(opts, enabled) ==
    [opts EXCEPT
        !.Limit = IF opts.Limit <= 0 THEN DefaultLimit ELSE opts.Limit,
        !.Threshold = IF RLeq(opts.Threshold, RZero) THEN SimilarityThreshold
                      ELSE opts.Threshold,
        !.UseClustering = IF ~opts.UseClustering THEN enabled ELSE opts.UseClustering]

\* An outcome of FindMatches holds the resolved threshold and limit, the
\* AssignCluster call made (its fields and the cluster ID it returned), the
\* searches issued, the IDs of the candidates found, the results or the
\* error, and the key cache afterwards.
Outcome(opts, assigns, searches, candidates, results, err, cache) ==
    [threshold |-> opts.Threshold, limit |-> opts.Limit, assigns |-> assigns,
     searches |-> searches, candidates |-> candidates, results |-> results,
     err |-> err, cache |-> cache]

\* the cluster step of FindMatches: with clustering the temporary entity is
\* assigned a cluster (a), the search is filtered on it and asks for three
\* times the limit
ClusterStep(clustered, opts, a, vector, cache) ==
    IF clustered
    THEN [assigns |-> <<[fields |-> RecordFields(a.entity), id |-> a.id]>>,
          search |-> [limit |-> opts.Limit * 3,
                      filter |-> GetClusterFilterForEntity(TRUE, a.entity),
                      vector |-> vector],
          cache |-> a.cache]
    ELSE [assigns |-> <<>>,
          search |-> [limit |-> opts.Limit, filter |-> "", vector |-> vector],
          cache |-> cache]

\* the search of FindMatches and the scoring, sorting and truncation of what
\* it finds
SearchAndScore(opts, queryFields, c, fail, st) ==
    IF fail = "search"
    THEN {Outcome(opts, c.assigns, <<c.search>>, <<>>, <<>>, "search", c.cache)}
    ELSE UNION {
           {Outcome(opts, c.assigns, <<c.search>>,
                    [i \in 1..Len(res) |-> res[i].entity.ID],
                    SubSeq(sorted, 1, Min(Len(sorted), opts.Limit)), "", c.cache) :
               sorted \in SortByScore(ConvertResults(res, queryFields, opts))} :
           res \in SearchEntities(st, c.search.vector, c.search.limit, c.search.filter)}

\* FindMatches after the defaults are applied
FindMatchesResolved(text, opts, vector, fail, enabled, cache, st) ==
    IF fail = "embed" THEN {Outcome(opts, <<>>, <<>>, <<>>, <<>>, "embed", cache)}
    ELSE SearchAndScore(opts, parseQueryFields(text),
                        ClusterStep(opts.UseClustering /\ enabled, opts,
                                    AssignCluster(enabled, cache,
                                                  EntityRecord(0, text, "", "", "",
                                                               vector, "")),
                                    vector, cache),
                        fail, st)

\* FindMatches(text, opts): the possible outcomes, given the vector the
\* embedding service returns for text and the collaborator that fails ("" for
\* none)
FindMatches(text, opts, vector, fail, enabled, cache, st) ==
    FindMatchesResolved(text, ResolveOptions(opts, enabled), vector, fail, enabled,
                        cache, st)

\* combineFields: the non-empty values of the map joined by spaces, in the
\* order the map iteration happens to produce
combineFields(fields) ==
    LET keys == {k \in DOMAIN fields : fields[k] # ""}
    IN  {Join([i \in 1..Len(p) |-> fields[p[i]]], " ") : p \in Perms(keys)}

\* FindMatchesForEntity(entity, opts): the possible outcomes
FindMatchesForEntity(fields, opts, vector, fail, enabled, cache, st) ==
    UNION {FindMatches(textToEmbed, opts, vector, fail, enabled, cache, st) :
              textToEmbed \in combineFields(NormalizeEntity(fields))}

(***************************************************************************)
(* Match groups                                                            *)
(***************************************************************************)
DefaultMaxGroupSize == 100
DefaultHopsLimit == 3
HybridThreshold == R(9, 10)

MatchGroupOptions(threshold, maxSize, includeScores, strategy, hopsLimit, fieldWeights) ==
    [ThresholdOverride |-> threshold, MaxGroupSize |-> maxSize,
     IncludeScores |-> includeScores, Strategy |-> strategy,
     HopsLimit |-> hopsLimit, FieldWeights |-> fieldWeights]

\* the options after GetMatchGroup has applied the defaults
ResolveGroupOptions(opts) ==
    [opts EXCEPT
        !.ThresholdOverride = IF RLeq(opts.ThresholdOverride, RZero)
                              THEN SimilarityThreshold ELSE opts.ThresholdOverride,
        !.MaxGroupSize = IF opts.MaxGroupSize <= 0 THEN DefaultMaxGroupSize
                         ELSE opts.MaxGroupSize,
        !.Strategy = IF opts.Strategy = "" THEN "hybrid" ELSE opts.Strategy,
        !.HopsLimit = IF opts.HopsLimit <= 0 THEN DefaultHopsLimit ELSE opts.HopsLimit]

\* the match options the group strategies hand to FindMatchesForEntity
GroupMatchOptions(opts, enabled) ==
    Options(opts.MaxGroupSize, opts.ThresholdOverride, enabled, opts.IncludeScores,
            opts.FieldWeights, EmptyMap, {})

\* the EntityData built from a stored record: NormalizeEntity recomputes the
\* normalized fields from the raw ones
EntityDataFields(entity) == [name |-> entity.Name, zip |-> entity.Zip]

\* getDirectMatchGroup without the exclusion of the primary
DirectMatches_KeepPrimary(matches, primaryID) == matches

\* the matches getDirectMatchGroup appends: all but the primary
RECURSIVE DirectMatches(_, _)
DirectMatches(matches, primaryID) ==
    IF matches = <<>> THEN <<>>
    ELSE IF Head(matches).ID # primaryID
    THEN <<Head(matches)>> \o DirectMatches(Tail(matches), primaryID)
    ELSE DirectMatches(Tail(matches), primaryID)

\* the directOpts of getHybridMatchGroup
HybridDirectOptions(opts) ==
    [opts EXCEPT
        !.HopsLimit = 1,
        !.ThresholdOverride = IF RLess(opts.ThresholdOverride, HybridThreshold)
                              THEN HybridThreshold ELSE opts.ThresholdOverride]

\* the state of the breadth-first search of getTransitiveMatchGroup
Bfs(entities, visited, queue, hopCount) ==
    [entities |-> entities, visited |-> visited, queue |-> queue, hopCount |-> hopCount]

StartBfs(entities, entity) ==
    Bfs(entities, {entity.ID}, <<entity>>, [k \in {entity.ID} |-> 0])

\* the entities popped without expansion: those at the hop limit
RECURSIVE SkipExhausted(_, _, _)
SkipExhausted(queue, hopCount, hopsLimit) ==
    IF queue = <<>> THEN <<>>
    ELSE IF hopCount[Head(queue).ID] >= hopsLimit
    THEN SkipExhausted(Tail(queue), hopCount, hopsLimit)
    ELSE queue

\* ProcessMatches without marking a new match as visited
RECURSIVE ProcessMatches_Unmarked(_, _, _, _, _, _)
ProcessMatches_Unmarked(matches, b, currentHops, maxSize, lost, st) ==
    IF matches = <<>> THEN [bfs |-> b, full |-> FALSE]
    ELSE LET match == Head(matches)
             b1 == [b EXCEPT
                      !.entities = Append(@, [match EXCEPT
                                                !.HopDistance = currentHops + 1])]
             b2 == [b1 EXCEPT
                      !.queue = Append(@, st[match.ID]),
                      !.hopCount = [k \in {match.ID} |-> currentHops + 1] @@ @]
         IN  IF match.ID \in b.visited
             THEN ProcessMatches_Unmarked(Tail(matches), b, currentHops, maxSize, lost, st)
             ELSE IF maxSize > 0 /\ Len(b1.entities) >= maxSize
             THEN [bfs |-> b1, full |-> TRUE]
             ELSE IF match.ID \in lost \/ match.ID \notin DOMAIN st
             THEN ProcessMatches_Unmarked(Tail(matches), b1, currentHops, maxSize, lost, st)
             ELSE ProcessMatches_Unmarked(Tail(matches), b2, currentHops, maxSize, lost, st)

\* ProcessMatches recording the hops of the current entity as the hop
\* distance of its matches
RECURSIVE ProcessMatches_CurrentHops(_, _, _, _, _, _)
ProcessMatches_CurrentHops(matches, b, currentHops, maxSize, lost, st) ==
    IF matches = <<>> THEN [bfs |-> b, full |-> FALSE]
    ELSE LET match == Head(matches)
             b1 == [b EXCEPT
                      !.visited = @ \cup {match.ID},
                      !.entities = Append(@, [match EXCEPT !.HopDistance = currentHops])]
             b2 == [b1 EXCEPT
                      !.queue = Append(@, st[match.ID]),
                      !.hopCount = [k \in {match.ID} |-> currentHops + 1] @@ @]
         IN  IF match.ID \in b.visited
             THEN ProcessMatches_CurrentHops(Tail(matches), b, currentHops, maxSize, lost, st)
             ELSE IF maxSize > 0 /\ Len(b1.entities) >= maxSize
             THEN [bfs |-> b1, full |-> TRUE]
             ELSE IF match.ID \in lost \/ match.ID \notin DOMAIN st
             THEN ProcessMatches_CurrentHops(Tail(matches), b1, currentHops, maxSize, lost, st)
             ELSE ProcessMatches_CurrentHops(Tail(matches), b2, currentHops, maxSize, lost, st)

\* the loop of getTransitiveMatchGroup over the matches of the current
\* entity; lost holds the IDs GetEntity fails for.  full: the group reached
\* its maximal size.
RECURSIVE ProcessMatches(_, _, _, _, _, _)
ProcessMatches(matches, b, currentHops, maxSize, lost, st) ==
    IF matches = <<>> THEN [bfs |-> b, full |-> FALSE]
    ELSE LET match == Head(matches)
             b1 == [b EXCEPT
                      !.visited = @ \cup {match.ID},
                      !.entities = Append(@, [match EXCEPT
                                                !.HopDistance = currentHops + 1])]
             b2 == [b1 EXCEPT
                      !.queue = Append(@, st[match.ID]),
                      !.hopCount = [k \in {match.ID} |-> currentHops + 1] @@ @]
         IN  IF match.ID \in b.visited
             THEN ProcessMatches(Tail(matches), b, currentHops, maxSize, lost, st)
             ELSE IF maxSize > 0 /\ Len(b1.entities) >= maxSize
             THEN [bfs |-> b1, full |-> TRUE]
             ELSE IF match.ID \in lost \/ match.ID \notin DOMAIN st
             THEN ProcessMatches(Tail(matches), b1, currentHops, maxSize, lost, st)
             ELSE ProcessMatches(Tail(matches), b2, currentHops, maxSize, lost, st)

\* the merge of a branch of getHybridMatchGroup into the group
RECURSIVE MergeBranch(_, _, _, _)
MergeBranch(branch, entities, visited, maxSize) ==
    IF branch = <<>> THEN [entities |-> entities, visited |-> visited, full |-> FALSE]
    ELSE IF Head(branch).ID \in visited
    THEN MergeBranch(Tail(branch), entities, visited, maxSize)
    ELSE IF maxSize > 0 /\ Len(entities) + 1 >= maxSize
    THEN [entities |-> Append(entities, Head(branch)),
          visited |-> visited \cup {Head(branch).ID}, full |-> TRUE]
    ELSE MergeBranch(Tail(branch), Append(entities, Head(branch)),
                     visited \cup {Head(branch).ID}, maxSize)

\* the sum of the scores of a list of results
RECURSIVE TotalScore(_)
TotalScore(entities) ==
    IF entities = <<>> THEN RZero
    ELSE RAdd(Head(entities).Score, TotalScore(Tail(entities)))

\* calculateGroupStatistics: the number of entities holding value in field
ValueCount(entities, field, value) ==
    Cardinality({i \in 1..Len(entities) :
                    field \in DOMAIN entities[i].Fields
                    /\ entities[i].Fields[field] = value})

\* the sample fields calculateGroupStatistics can produce: for every field
\* one of its most frequent values, the one the map iteration meets first
SampleFields(entities, score) ==
    LET values(f) == {entities[i].Fields[f] : i \in
                        {j \in 1..Len(entities) : f \in DOMAIN entities[j].Fields}} \ {""}
        fields == {f \in UNION {DOMAIN entities[i].Fields : i \in 1..Len(entities)} :
                      values(f) # {}}
        best(f) == {v \in values(f) :
                      \A w \in values(f) :
                         ValueCount(entities, f, w) <= ValueCount(entities, f, v)}
        entry(f, v) ==
            LET agreement == R(ValueCount(entities, f, v), Len(entities))
            IN  [Value |-> v, Agreement |-> agreement,
                 Confidence |-> RMul(agreement, score)]
    IN  {[f \in fields |-> entry(f, pick[f])] :
            pick \in {p \in [fields -> UNION {best(f) : f \in fields}] :
                        \A f \in fields : p[f] \in best(f)}}

\* calculateGroupStatistics: the groups it can leave
calculateGroupStatistics(entities) ==
    LET score == RDiv(TotalScore(entities), RInt(Len(entities)))
    IN  {[Entities |-> sorted, Score |-> score, Size |-> Len(entities),
          SampleFields |-> sample] :
            sorted \in SortByScore(entities), sample \in SampleFields(entities, score)}

(***************************************************************************)
(* State                                                                   *)
(***************************************************************************)
VARIABLES
    clusteringEnabled,  \* cfg.Clustering.Enabled
    store,              \* the vector store: ID -> EntityRecord
    keyCache,           \* cluster.Service.keyCache
    resp,               \* the request being answered, op = "idle" between requests
    goroutines,         \* the background goroutines of the API server not yet run
    recomputeRuns,      \* the executions of Service.RecomputeClusters so far
    embCache,           \* embed.HTTPClient.cache: text -> vector
    cacheMutex,         \* embed.HTTPClient.cacheMutex: its writer and its readers
    callers,            \* the goroutines calling the embedding client
    schemaInitDone,     \* weaviate.Client.schemaInitDone
    vsClasses,          \* the classes of the schema the vector store holds
    createCalls,        \* the outcomes of the class-creation calls issued so far
    requests            \* the goroutines calling the vector-store client

recomputeVars == <<goroutines, recomputeRuns>>
embedVars == <<embCache, cacheMutex, callers>>
schemaVars == <<schemaInitDone, vsClasses, createCalls, requests>>
\* the state outside the match service
backgroundVars == <<recomputeVars, embedVars, schemaVars>>
nonEmbedVars == <<clusteringEnabled, store, keyCache, resp, recomputeVars, schemaVars>>
nonSchemaVars == <<clusteringEnabled, store, keyCache, resp, recomputeVars, embedVars>>

vars == <<clusteringEnabled, store, keyCache, resp, backgroundVars>>

Idle == [op |-> "idle"]

\* the goroutines that call a client concurrently
Procs == {1, 2}
\* sync.RWMutex: the goroutine holding the write lock, 0 when none, and the
\* goroutines holding read locks
Unlocked == [writer |-> 0, readers |-> {}]
\* a goroutine outside the embedding client
NoCall == [pc |-> "idle"]
\* a goroutine outside the vector-store client
NoRequest == [pc |-> "idle"]

\* the field maps of the entities submitted for ingest and as match queries
InputFields ==
    {[name |-> "Acme", zip |-> ""],
     [name |-> "", zip |-> "12345-6"]}

\* the texts submitted as match queries
Texts == {"Acme", "zip=12399"}

Limits == {0, 1}
Thresholds == {RZero, R(95, 100)}
SampleWeights == [k \in {"name", "zip"} |-> IF k = "name" THEN R(4, 10) ELSE R(5, 100)]

\* the options of the match requests
MatchOptions ==
    {Options(l, t, c, sc, IF sc THEN SampleWeights ELSE EmptyMap, EmptyMap, {}) :
        l \in Limits, t \in Thresholds, c \in BOOLEAN, sc \in BOOLEAN}

\* the options of the entity match requests
EntityOptions ==
    {Options(l, RZero, c, FALSE, EmptyMap, EmptyMap, {}) : l \in Limits, c \in BOOLEAN}

\* the embedding client and the vector-store client after construction, no
\* goroutine running
InitBackground ==
    /\ goroutines = 0
    /\ recomputeRuns = 0
    /\ embCache = EmptyMap
    /\ cacheMutex = Unlocked
    /\ callers = [p \in Procs |-> NoCall]
    /\ schemaInitDone = FALSE
    /\ vsClasses = {}
    /\ createCalls = <<>>
    /\ requests = [p \in Procs |-> NoRequest]

Init ==
    /\ clusteringEnabled \in BOOLEAN
    /\ store = EmptyMap
    /\ keyCache = EmptyMap
    /\ resp = Idle
    /\ InitBackground

(***************************************************************************)
(* Requests                                                                *)
(***************************************************************************)
\* AddEntity(data) with the vector the embedding service returns; fail says
\* which collaborator fails.  id is the ID of the entity: the one the caller
\* gave or the one generated for an empty ID.  The store rejects an ID it
\* already holds.
AddEntity(id, fields, vector, fail) ==
    /\ resp = Idle
    /\ \E entity \in {convertToWeaviateEntity(id, NormalizeEntity(fields), vector)} :
       \E a \in {AssignCluster(clusteringEnabled, keyCache, entity)} :
       \E assigns \in {IF clusteringEnabled
                        THEN <<[fields |-> RecordFields(entity), id |-> a.id]>>
                        ELSE <<>>} :
          IF fail = "embed"
          THEN /\ UNCHANGED <<store, keyCache>>
               /\ resp' = [op |-> "AddEntity", err |-> "embed", id |-> id,
                           assigns |-> <<>>]
          ELSE /\ keyCache' = a.cache
               /\ store' = IF fail = "store" \/ id \in DOMAIN store THEN store
                            ELSE [k \in DOMAIN store \cup {id} |->
                                     IF k = id THEN a.entity ELSE store[k]]
               /\ resp' = [op |-> "AddEntity",
                           err |-> IF fail = "store" \/ id \in DOMAIN store
                                   THEN "store" ELSE "",
                           id |-> id, assigns |-> assigns]
    /\ UNCHANGED clusteringEnabled
    /\ UNCHANGED backgroundVars

\* batchSize of BatchAddEntities
BatchSize == 100

\* a Go error: the texts of the wrapped messages, outermost first, and the
\* numbers formatted into them
GoError(text, numbers) == [text |-> text, numbers |-> numbers]
NoError == GoError(<<>>, <<>>)

\* the 1-based indices at which BatchAddEntities executes a batch
BatchEnds(n) == {i \in 1..n : i % BatchSize = 0 \/ i = n}

\* the entities of the batches executed before the one ending at failAt
AckedBefore(n, failAt) ==
    IF failAt = 0 THEN n
    ELSE Cardinality({i \in 1..n : \E e \in BatchEnds(n) : i <= e /\ e < failAt})

\* Client.BatchAddEntities(entities); failAt is the index ending the batch
\* whose batcher.Do fails, 0 when none fails.  ids: the slice returned;
\* acked: the number of entities of the acknowledged batches, which are the
\* ones the store holds afterwards.
BatchAddEntities(st, entities, failAt) ==
    [ids |-> [i \in 1..(IF failAt = 0 THEN Len(entities) ELSE failAt) |-> entities[i].ID],
     err |-> IF failAt = 0 THEN "" ELSE "failed to execute batch",
     acked |-> AckedBefore(Len(entities), failAt),
     store |-> [k \in DOMAIN st \cup {entities[i].ID :
                                        i \in 1..AckedBefore(Len(entities), failAt)} |->
                  IF \E i \in 1..AckedBefore(Len(entities), failAt) : entities[i].ID = k
                  THEN entities[CHOOSE i \in 1..AckedBefore(Len(entities), failAt) :
                                   entities[i].ID = k]
                  ELSE st[k]]]

\* one round of the loop of AddEntities, a being the outcome of AssignCluster
OneAssigned(a) == [entities |-> <<a.entity>>, cache |-> a.cache]

\* the rounds done before, followed by the later ones
Joined(doneEntities, later) ==
    [entities |-> doneEntities \o later.entities, cache |-> later.cache]

\* the rounds of the loop of AddEntities for entities[lo..hi], in this
\* order, each with the key cache the round before left: the rounds of the
\* first half, then those of the second half
RECURSIVE AssignSlice(_, _, _, _, _)
RECURSIVE ThenSlice(_, _, _, _, _)
AssignSlice(enabled, cache, entities, lo, hi) ==
    IF hi < lo THEN [entities |-> <<>>, cache |-> cache]
    ELSE IF lo = hi THEN OneAssigned(AssignCluster(enabled, cache, entities[lo]))
    ELSE ThenSlice(enabled, entities, ((lo + hi) \div 2) + 1, hi,
                   AssignSlice(enabled, cache, entities, lo, (lo + hi) \div 2))

\* the rounds for entities[lo..hi] after the rounds that gave first
ThenSlice(enabled, entities, lo, hi, first) ==
    Joined(first.entities, AssignSlice(enabled, first.cache, entities, lo, hi))

\* the loop of AddEntities over the converted entities: every entity with
\* its cluster assigned, and the key cache afterwards
AssignClusters(enabled, cache, entities, done) ==
    Joined(done, AssignSlice(enabled, cache, entities, Len(done) + 1, Len(entities)))

\* the error AddEntities returns for the outcome of its two phases
AddEntitiesError(embedFail, batchErr) ==
    IF embedFail # 0
    THEN GoError(<<"failed to generate embeddings for entity", "embedding service">>,
                 <<embedFail - 1>>)
    ELSE IF batchErr # ""
    THEN GoError(<<"failed to add entities to Weaviate", batchErr>>, <<>>)
    ELSE NoError

\* the store after AddEntities: BatchAddEntities, with outcome b, is called
\* only after the loop over the entities, which an embedding failure leaves
StoreAfterAddEntities_Batched(st, embedFail, b) == b.store
StoreAfterAddEntities(st, embedFail, b) == IF embedFail # 0 THEN st ELSE b.store

\* Service.AddEntities(dataList) for a list of entities with the given IDs
\* and the same fields, which the embedding service maps to vector.
\* embedFail: the 1-based index of the entity whose GetEmbedding call fails,
\* 0 when none does; failAt: as for BatchAddEntities.
AddEntities(ids, fields, vector, embedFail, failAt) ==
    /\ resp = Idle
    /\ \E prepared \in
           {AssignClusters(clusteringEnabled, keyCache,
                           [i \in 1..(IF embedFail = 0 THEN Len(ids) ELSE embedFail - 1) |->
                               convertToWeaviateEntity(ids[i], NormalizeEntity(fields),
                                                       vector)],
                           <<>>)} :
       \E b \in {BatchAddEntities(store, prepared.entities, failAt)} :
          /\ keyCache' = prepared.cache
          /\ store' = StoreAfterAddEntities(store, embedFail, b)
          /\ resp' = [op |-> "AddEntities", n |-> Len(ids), embedFail |-> embedFail,
                      err |-> AddEntitiesError(embedFail, b.err),
                      acked |-> IF embedFail # 0 THEN 0 ELSE b.acked]
    /\ UNCHANGED clusteringEnabled
    /\ UNCHANGED backgroundVars

\* cluster.Service.RecomputeAllClusters with the service's key cache: the
\* store after every entity, listed page by page in the order of the IDs,
\* got its cluster assigned and was written back
RecomputeAllClusters(enabled, cache, st) ==
    IF ~enabled THEN st
    ELSE [id \in DOMAIN st |->
             AssignClusters(enabled, cache, [i \in 1..Cardinality(DOMAIN st) |-> st[i]],
                            <<>>).entities[id]]

\* the command line recomputes the clusters (processRecomputeClusters): a
\* process of its own, whose match service starts with an empty key cache,
\* runs Service.RecomputeClusters, which fails when clustering is disabled
CommandRecomputeClusters ==
    /\ clusteringEnabled
    /\ recomputeRuns < MaxRuns
    /\ DOMAIN store = 1..Cardinality(DOMAIN store)
    /\ store' = RecomputeAllClusters(clusteringEnabled, EmptyMap, store)
    /\ recomputeRuns' = recomputeRuns + 1
    /\ UNCHANGED <<clusteringEnabled, keyCache, resp, goroutines, embedVars, schemaVars>>

\* batchSize of Service.RecomputeClusters
RecomputeBatchSize == 100

\* Client.ListEntities(offset, limit): the page of the entities the store
\* lists after the first offset ones, at most limit of them; the store lists
\* its entities in the order of their IDs
ListEntities(st, offset, limit) ==
    [i \in 1..Max(0, Min(limit, Cardinality(DOMAIN st) - offset)) |-> st[offset + i]]

\* Client.BatchUpdateEntities(entities): the batches acknowledged before the
\* one that fails replace the stored objects of the same IDs
BatchUpdateEntities(st, entities, failAt) ==
    [BatchAddEntities(st, entities, failAt) EXCEPT
        !.err = IF failAt = 0 THEN "" ELSE "failed to execute batch update"]

\* RecomputeAllClusters leaves its loop after a page shorter than batchSize
LastPage_Inclusive(n, batchSize) == n <= batchSize
LastPage(n, batchSize) == n < batchSize

\* a run of Service.RecomputeClusters between two rounds of the loop of
\* RecomputeAllClusters.  pages: the IDs of the pages listed so far;
\* updated: the IDs of the entities written back so far.
RecomputeRun(pc, err, offset, cache, pages, updated) ==
    [op |-> "RecomputeClusters", pc |-> pc, err |-> err, offset |-> offset,
     batchSize |-> RecomputeBatchSize, cache |-> cache, pages |-> pages,
     updated |-> updated]

\* Service.RecomputeClusters is called in a process of its own, whose
\* cluster service starts with an empty key cache: it fails when clustering
\* is disabled and enters the loop of RecomputeAllClusters otherwise
RecomputeClusters ==
    /\ resp = Idle
    /\ DOMAIN store = 1..Cardinality(DOMAIN store)
    /\ resp' = IF clusteringEnabled
               THEN RecomputeRun("list", "", 0, EmptyMap, <<>>, <<>>)
               ELSE RecomputeRun("done", "clustering is not enabled in the configuration",
                                 0, EmptyMap, <<>>, <<>>)
    /\ UNCHANGED <<clusteringEnabled, store, keyCache>>
    /\ UNCHANGED backgroundVars

\* the IDs of the entities of a page, in the order of the page
PageIDs(entities) == [i \in 1..Len(entities) |-> entities[i].ID]

\* the round of the loop for a page that was listed: the cluster of every
\* entity of the page is assigned, the page is written back, and the loop
\* goes on unless the page was the last one
UpdatePage(run, entities, prepared, b) ==
    /\ store' = b.store
    /\ resp' = IF b.err # ""
               THEN [run EXCEPT !.pc = "done", !.err = "failed to update entities",
                                !.cache = prepared.cache,
                                !.pages = Append(run.pages, PageIDs(entities))]
               ELSE [run EXCEPT
                        !.pc = IF LastPage(Len(entities), run.batchSize)
                               THEN "done" ELSE "list",
                        !.offset = run.offset + Len(entities),
                        !.cache = prepared.cache,
                        !.pages = Append(run.pages, PageIDs(entities)),
                        !.updated = run.updated \o PageIDs(entities)]

\* a round of the loop of RecomputeAllClusters in which ListEntities fails
ListEntitiesFails ==
    /\ resp.op = "RecomputeClusters"
    /\ resp.pc = "list"
    /\ resp' = [resp EXCEPT !.pc = "done", !.err = "failed to list entities"]
    /\ UNCHANGED <<clusteringEnabled, store, keyCache>>
    /\ UNCHANGED backgroundVars

\* a round of the loop of RecomputeAllClusters in which ListEntities
\* succeeds; failAt: as for BatchAddEntities
RecomputeAllClustersRound(failAt) ==
    /\ resp.op = "RecomputeClusters"
    /\ resp.pc = "list"
    /\ \E entities \in {ListEntities(store, resp.offset, resp.batchSize)} :
          IF Len(entities) = 0
          THEN /\ resp' = [resp EXCEPT !.pc = "done"]
               /\ UNCHANGED store
          ELSE /\ failAt \in {0} \cup BatchEnds(Len(entities))
               /\ \E prepared \in {AssignClusters(clusteringEnabled, resp.cache,
                                                  entities, <<>>)} :
                     UpdatePage(resp, entities, prepared,
                                BatchUpdateEntities(store, prepared.entities, failAt))
    /\ UNCHANGED <<clusteringEnabled, keyCache>>
    /\ UNCHANGED backgroundVars

\* Server.handleRecomputeClusters: POST /clusters/recompute is refused when
\* clustering is disabled; otherwise the handler starts a goroutine and
\* answers 202 at once
handleRecomputeClusters ==
    /\ resp = Idle
    /\ goroutines < MaxGoroutines
    /\ goroutines' = IF clusteringEnabled THEN goroutines + 1 ELSE goroutines
    /\ resp' = [op |-> "handleRecomputeClusters",
                status |-> IF clusteringEnabled THEN 202 ELSE 400]
    /\ UNCHANGED <<clusteringEnabled, store, keyCache, recomputeRuns, embedVars,
                   schemaVars>>

\* the goroutine of handleRecomputeClusters runs: it logs that the
\* recomputation started and ends; the call of RecomputeClusters is only a
\* comment in its body
RecomputeGoroutine ==
    /\ goroutines > 0
    /\ goroutines' = goroutines - 1
    /\ UNCHANGED <<clusteringEnabled, store, keyCache, resp, recomputeRuns, embedVars,
                   schemaVars>>

\* the texts embedded, the lists of texts embedded in one call, and the
\* answers of the embedding service to one request
EmbedTexts == {"a", "b"}
EmbedLists ==
    {<<>>} \cup {<<t>> : t \in EmbedTexts} \cup {<<t, u>> : t \in EmbedTexts, u \in EmbedTexts}
EmbedAnswers == UNION {[1..n -> Vecs] : n \in 1..2}

(***************************************************************************)
(* Normalizer calls                                                        *)
(***************************************************************************)
Normalizers ==
    {"NormalizeText", "NormalizeName", "NormalizeAddress", "NormalizePhone",
     "NormalizeEmail", "NormalizeState", "NormalizeZip"}

\* the strings the normalizers are applied to
NormalizerInputs ==
    {"", "  The  Acme  ", "Acme Inc", "Acme Inc LLC", "J.R. Smith", "Acme of Texas",
     "12 Main Street Apt 4", "Main Street.Road", "12 Main St apt # 5 b",
     "(555) 123-4567", "+1 555 123 4567", "1-555-123-4567", "+15551234567",
     "Bob@Example.COM", "new york", "ny", "12345-6789", "ab 1c", "Texas", "ACME INC.",
     "J. D. Salinger"}

\* the results of the normalizer fn for x: only NormalizeAddress has more
\* than one
Normalize(fn, x) ==
    CASE fn = "NormalizeText" -> {NormalizeText(x)}
      [] fn = "NormalizeName" -> {NormalizeName(x)}
      [] fn = "NormalizeAddress" -> NormalizeAddress(x)
      [] fn = "NormalizePhone" -> {NormalizePhone(x)}
      [] fn = "NormalizeEmail" -> {NormalizeEmail(x)}
      [] fn = "NormalizeState" -> {NormalizeState(x)}
      [] fn = "NormalizeZip" -> {NormalizeZip(x)}

\* a caller holds the string x for the normalizer fn
NormalizerCall(fn, x) == [op |-> "normalizer", fn |-> fn, x |-> x]

\* the service after construction, a caller holding the input of a
\* normalizer
InitNormalizer ==
    /\ clusteringEnabled \in BOOLEAN
    /\ store = EmptyMap
    /\ keyCache = EmptyMap
    /\ resp \in {NormalizerCall(fn, x) :
                   fn \in Normalizers, x \in NormalizerInputs}
    /\ InitBackground

\* the normalizer is applied to x, and again to its result
ApplyNormalizer ==
    /\ resp.op = "normalizer"
    /\ \E once \in Normalize(resp.fn, resp.x) :
          \E twice \in Normalize(resp.fn, once) :
              resp' = [op |-> "normalized", fn |-> resp.fn, x |-> resp.x, once |-> once,
                       twice |-> twice]
    /\ UNCHANGED <<clusteringEnabled, store, keyCache, backgroundVars>>

(***************************************************************************)
(* Comparator calls                                                        *)
(***************************************************************************)
\* the Name() of the comparators of the registry
Comparators ==
    {"ExactMatch", "CaseInsensitiveMatch", "JaroWinkler", "Levenshtein", "Jaccard", "Cosine",
     "ContainedIn", "NameSimilarity", "AddressSimilarity", "PhoneSimilarity",
     "EmailSimilarity", "ZipCodeSimilarity"}

\* the results of Function.Compare of every comparator of the registry:
\* only AddressSimilarity has more than one
Scores(simFn, a, b) ==
    CASE simFn = "ExactMatch" -> {ExactMatchCompare(a, b)}
      [] simFn = "CaseInsensitiveMatch" -> {CaseInsensitiveCompare(a, b)}
      [] simFn = "JaroWinkler" -> {JaroWinklerCompare(a, b)}
      [] simFn = "Levenshtein" -> {LevenshteinCompare(a, b)}
      [] simFn = "Jaccard" -> {JaccardCompare(a, b)}
      [] simFn = "Cosine" -> {CosineCompare(a, b)}
      [] simFn = "ContainedIn" -> {ContainedInCompare(a, b)}
      [] simFn = "NameSimilarity" -> {NameSimilarityCompare(a, b)}
      [] simFn = "AddressSimilarity" -> AddressSimilarityCompare(a, b)
      [] simFn = "PhoneSimilarity" -> {PhoneSimilarityCompare(a, b)}
      [] simFn = "EmailSimilarity" -> {EmailSimilarityCompare(a, b)}
      [] simFn = "ZipCodeSimilarity" -> {ZipCodeSimilarityCompare(a, b)}

\* the strings the comparators are applied to, each with itself, and some
\* pairs of different strings
ComparatorInputs ==
    {"", "-", "Acme", "a b", "acme corp", "12 West Parkway", "555-1234", "bob@example.com",
     "12345"}
ComparatorPairs ==
    {<<a, a>> : a \in ComparatorInputs}
    \cup {<<"Acme", "acme">>, <<"12 West Parkway", "14 west pkwy apt 3">>,
          <<"555-1234", "(212) 555-1234">>, <<"bob@example.com", "rob@Example.com">>,
          <<"a b", "b c">>, <<"", "-">>, <<"12345-6789", "12345">>, <<"12345", "12399">>,
          <<"12345", "12349">>, <<"a@x.com", "A@x.com">>, <<"a@x.com", "a@y.com">>}

\* a caller holds the strings a and b for the comparator fn
ComparatorCall(fn, a, b) == [op |-> "comparator", fn |-> fn, a |-> a, b |-> b]

\* the service after construction, a caller holding the inputs of a
\* comparator
InitComparator ==
    /\ clusteringEnabled \in BOOLEAN
    /\ store = EmptyMap
    /\ keyCache = EmptyMap
    /\ resp \in {ComparatorCall(fn, pair[1], pair[2]) :
                   fn \in Comparators, pair \in ComparatorPairs}
    /\ InitBackground

\* the comparator is applied to a and b
ApplyComparator ==
    /\ resp.op = "comparator"
    /\ \E score \in Scores(resp.fn, resp.a, resp.b) :
          resp' = [op |-> "compared", fn |-> resp.fn, a |-> resp.a, b |-> resp.b,
                   score |-> score]
    /\ UNCHANGED <<clusteringEnabled, store, keyCache, backgroundVars>>

(***************************************************************************)
(* Text to embed                                                           *)
(***************************************************************************)
\* the methods of the match service that embed an entity
EmbeddingCallers == {"AddEntity", "FindMatchesForEntity"}

\* a field map from the optional values of name and zip, <<>> for a key
\* the map does not have
FieldMap(name, zip) ==
    [k \in (IF name = <<>> THEN {} ELSE {"name"}) \cup (IF zip = <<>> THEN {} ELSE {"zip"}) |->
        IF k = "name" THEN name[1] ELSE zip[1]]

\* the field maps of the entities embedded
EmbeddedFields ==
    {FieldMap(name, zip) : name \in {<<>>, <<"">>, <<"Acme">>, <<"Acme Inc">>},
                           zip \in {<<>>, <<"">>, <<"123">>, <<"12345-6">>}}

\* a caller holds the fields of an entity to embed
EmbedCall(caller, fields) == [op |-> "entity", caller |-> caller, fields |-> fields]

\* the service after construction, a caller holding an entity to embed
InitTextToEmbed ==
    /\ clusteringEnabled \in BOOLEAN
    /\ store = EmptyMap
    /\ keyCache = EmptyMap
    /\ resp \in {EmbedCall(caller, fields) :
                   caller \in EmbeddingCallers, fields \in EmbeddedFields}
    /\ InitBackground

\* AddEntity and FindMatchesForEntity up to the call of the embedding
\* service: textToEmbed := combineFields(NormalizeEntity(fields))
TextToEmbed ==
    /\ resp.op = "entity"
    /\ \E textToEmbed \in combineFields(NormalizeEntity(resp.fields)) :
          resp' = [op |-> "textToEmbed", caller |-> resp.caller, fields |-> resp.fields,
                   text |-> textToEmbed]
    /\ UNCHANGED <<clusteringEnabled, store, keyCache, backgroundVars>>

(***************************************************************************)
(* Weighted scores                                                         *)
(***************************************************************************)
\* the vector scores, field scores and weights computeFieldScores blends
VectorScores == {RZero, R(1, 2), ROne}
FieldScoreValues == {RZero, R(5, 10), R(8, 10)}
FieldWeightValues == {RZero, R(4, 10), R(6, 10)}
ScoredFieldNames == {"name", "phone"}
FieldScoreMaps ==
    UNION {[D -> {[Score |-> v] : v \in FieldScoreValues}] : D \in SUBSET ScoredFieldNames}
FieldWeightMaps == UNION {[D -> FieldWeightValues] : D \in SUBSET ScoredFieldNames}

\* a result with its vector score and field scores, and the weights of the
\* request, before the last step of computeFieldScores
BlendCall(score, fieldScores, fieldWeights) ==
    [op |-> "fieldScores", vectorScore |-> score, fieldScores |-> fieldScores,
     fieldWeights |-> fieldWeights]

InitBlend ==
    /\ clusteringEnabled \in BOOLEAN
    /\ store = EmptyMap
    /\ keyCache = EmptyMap
    /\ resp \in {BlendCall(v, fs, fw) :
                   v \in VectorScores, fs \in FieldScoreMaps, fw \in FieldWeightMaps}
    /\ InitBackground

\* the last step of computeFieldScores sets the score of the result
Blend ==
    /\ resp.op = "fieldScores"
    /\ resp' = [op |-> "blended", vectorScore |-> resp.vectorScore,
                fieldScores |-> resp.fieldScores, fieldWeights |-> resp.fieldWeights,
                score |-> BlendScores([Score |-> resp.vectorScore, FieldScores |-> EmptyMap],
                                      resp.fieldScores, resp.fieldWeights).Score]
    /\ UNCHANGED <<clusteringEnabled, store, keyCache, backgroundVars>>

(***************************************************************************)
(* Embedding client                                                        *)
(***************************************************************************)
\* a goroutine inside GetEmbedding or GetEmbeddingBatch: op is the method
\* called, text the argument of GetEmbedding, texts the argument of
\* GetEmbeddingBatch, missing the indices of the texts the cache did not
\* hold (missingIdx), fetched the number of them fetched so far, got the
\* embeddings of the answer being cached, results the embeddings to return
\* (an index without an embedding yet is not in its domain)
Call(pc, op, text, texts) ==
    [pc |-> pc, op |-> op, text |-> text, texts |-> texts, missing |-> <<>>,
     fetched |-> 0, got |-> <<>>, results |-> <<>>, err |-> ""]

\* missingTexts
MissingTexts(c) == [k \in 1..Len(c.missing) |-> c.texts[c.missing[k]]]

\* the batch size GetEmbeddingBatch uses
EffectiveBatchSize == IF EmbedBatchSize <= 0 THEN DefaultEmbedBatchSize ELSE EmbedBatchSize

\* the insertion without the test of the size
CacheInsert_Always(cache, text, emb) ==
    [k \in DOMAIN cache \cup {text} |-> IF k = text THEN emb ELSE cache[k]]

\* if len(c.cache) < c.cacheSize { c.cache[text] = emb }
CacheInsert(cache, text, emb) ==
    IF Cardinality(DOMAIN cache) < CacheSize
    THEN [k \in DOMAIN cache \cup {text} |-> IF k = text THEN emb ELSE cache[k]]
    ELSE cache

\* the loop of GetEmbeddingBatch over the embeddings of one answer
RECURSIVE CacheInsertAll(_, _, _)
CacheInsertAll(cache, texts, embs) ==
    IF embs = <<>> THEN cache
    ELSE CacheInsertAll(CacheInsert(cache, Head(texts), Head(embs)), Tail(texts),
                        Tail(embs))

\* the texts of the next request to the embedding service
NextChunk(c) ==
    SubSeq(MissingTexts(c), c.fetched + 1, Min(c.fetched + EffectiveBatchSize, Len(c.missing)))

\* results[missingIdx[fetched+i]] = res.Embeddings[i] for every i
StoreResults(c) ==
    [idx \in DOMAIN c.results \cup {c.missing[c.fetched + i] : i \in 1..Len(c.got)} |->
        IF \E i \in 1..Len(c.got) : c.missing[c.fetched + i] = idx
        THEN c.got[CHOOSE i \in 1..Len(c.got) :
                      /\ c.missing[c.fetched + i] = idx
                      /\ \A j \in (i + 1)..Len(c.got) : c.missing[c.fetched + j] # idx]
        ELSE c.results[idx]]

\* the goroutine after GetEmbeddingBatch returned its results: GetEmbedding
\* goes on to cache the first of them, a direct call is over
BatchReturned(c) ==
    IF c.op = "GetEmbedding" THEN [c EXCEPT !.pc = "lock"] ELSE [c EXCEPT !.pc = "done"]

\* a goroutine calls GetEmbedding(text)
CallGetEmbedding(p, text) ==
    /\ callers[p] = NoCall
    /\ callers' = [callers EXCEPT ![p] =
                      Call(IF text = "" THEN "done" ELSE "rlock", "GetEmbedding", text,
                           <<>>)]
    /\ UNCHANGED <<embCache, cacheMutex, nonEmbedVars>>

\* a goroutine calls GetEmbeddingBatch(texts)
CallGetEmbeddingBatch(p, texts) ==
    /\ callers[p] = NoCall
    /\ callers' = [callers EXCEPT ![p] =
                      Call(IF texts = <<>> THEN "done" ELSE "batchRLock",
                           "GetEmbeddingBatch", "", texts)]
    /\ UNCHANGED <<embCache, cacheMutex, nonEmbedVars>>

\* cacheMutex.RLock(): granted while no goroutine holds the write lock
RLock(p) ==
    /\ callers[p].pc \in {"rlock", "batchRLock"}
    /\ cacheMutex.writer = 0
    /\ cacheMutex' = [cacheMutex EXCEPT !.readers = @ \cup {p}]
    /\ callers' = [callers EXCEPT ![p].pc = IF @ = "rlock" THEN "read" ELSE "batchRead"]
    /\ UNCHANGED <<embCache, nonEmbedVars>>

\* GetEmbedding looks the text up and releases the read lock: a hit is
\* returned, a miss goes to GetEmbeddingBatch([text])
ReadCache(p) ==
    /\ callers[p].pc = "read"
    /\ cacheMutex' = [cacheMutex EXCEPT !.readers = @ \ {p}]
    /\ callers' = [callers EXCEPT ![p] =
                      IF callers[p].text \in DOMAIN embCache
                      THEN [@ EXCEPT !.pc = "done",
                                      !.results = <<embCache[callers[p].text]>>]
                      ELSE [@ EXCEPT !.pc = "batchRLock", !.texts = <<callers[p].text>>]]
    /\ UNCHANGED <<embCache, nonEmbedVars>>

\* GetEmbeddingBatch collects the texts the cache does not hold and
\* releases the read lock
BatchRead(p) ==
    /\ callers[p].pc = "batchRead"
    /\ cacheMutex' = [cacheMutex EXCEPT !.readers = @ \ {p}]
    /\ \E missing \in {SelectSeq([i \in 1..Len(callers[p].texts) |-> i],
                                  LAMBDA i : callers[p].texts[i] \notin DOMAIN embCache)},
          results \in {[i \in {j \in 1..Len(callers[p].texts) :
                                  callers[p].texts[j] \in DOMAIN embCache} |->
                          embCache[callers[p].texts[i]]]} :
          callers' = [callers EXCEPT ![p] =
                         IF missing = <<>>
                         THEN BatchReturned([@ EXCEPT !.results = results])
                         ELSE [@ EXCEPT !.pc = "fetch", !.missing = missing,
                                        !.results = results, !.fetched = 0]]
    /\ UNCHANGED <<embCache, nonEmbedVars>>

\* the request to the embedding service for the next texts: it fails, or
\* it answers with one embedding for every text
Fetch(p, ok, embs) ==
    /\ callers[p].pc = "fetch"
    /\ Len(embs) = Len(NextChunk(callers[p]))
    /\ callers' = [callers EXCEPT ![p] =
                      IF ok THEN [@ EXCEPT !.pc = "batchLock", !.got = embs]
                      ELSE [@ EXCEPT !.pc = "done", !.results = <<>>, !.err = "embed"]]
    /\ UNCHANGED <<embCache, cacheMutex, nonEmbedVars>>

\* cacheMutex.Lock(): granted while no goroutine holds the lock in any mode
Lock(p) ==
    /\ callers[p].pc \in {"lock", "batchLock"}
    /\ cacheMutex = Unlocked
    /\ cacheMutex' = [cacheMutex EXCEPT !.writer = p]
    /\ callers' = [callers EXCEPT ![p].pc = IF @ = "lock" THEN "write" ELSE "batchWrite"]
    /\ UNCHANGED <<embCache, nonEmbedVars>>

\* GetEmbeddingBatch caches the embeddings of the answer
BatchWrite(p) ==
    /\ callers[p].pc = "batchWrite"
    /\ embCache' = CacheInsertAll(embCache, NextChunk(callers[p]), callers[p].got)
    /\ callers' = [callers EXCEPT ![p] =
                      [@ EXCEPT !.pc = "batchUnlock",
                                 !.results = StoreResults(callers[p])]]
    /\ UNCHANGED <<cacheMutex, nonEmbedVars>>

\* GetEmbeddingBatch releases the write lock and goes on with the texts
\* left, or returns
BatchUnlock(p) ==
    /\ callers[p].pc = "batchUnlock"
    /\ cacheMutex' = [cacheMutex EXCEPT !.writer = 0]
    /\ \E fetched \in {callers[p].fetched + Len(NextChunk(callers[p]))} :
          callers' = [callers EXCEPT ![p] =
                         IF fetched < Len(@.missing)
                         THEN [@ EXCEPT !.pc = "fetch", !.fetched = fetched,
                                        !.got = <<>>]
                         ELSE BatchReturned([@ EXCEPT !.fetched = fetched,
                                                      !.got = <<>>])]
    /\ UNCHANGED <<embCache, nonEmbedVars>>

\* GetEmbedding caches the embedding GetEmbeddingBatch returned
WriteCache(p) ==
    /\ callers[p].pc = "write"
    /\ embCache' = CacheInsert(embCache, callers[p].text, callers[p].results[1])
    /\ callers' = [callers EXCEPT ![p].pc = "unlock"]
    /\ UNCHANGED <<cacheMutex, nonEmbedVars>>

\* the deferred cacheMutex.Unlock() of GetEmbedding
Unlock(p) ==
    /\ callers[p].pc = "unlock"
    /\ cacheMutex' = [cacheMutex EXCEPT !.writer = 0]
    /\ callers' = [callers EXCEPT ![p].pc = "done"]
    /\ UNCHANGED <<embCache, nonEmbedVars>>

\* the call returns to its caller
ReturnCall(p) ==
    /\ callers[p] # NoCall
    /\ callers[p].pc = "done"
    /\ callers' = [callers EXCEPT ![p] = NoCall]
    /\ UNCHANGED <<embCache, cacheMutex, nonEmbedVars>>

(***************************************************************************)
(* Vector-store client: schema initialisation                              *)
(***************************************************************************)
\* c.className
ClassName == "Entity"

\* the methods of the client that start with the test of schemaInitDone
ClientMethods ==
    {"AddEntity", "BatchAddEntities", "SearchEntities", "GetEntity", "UpdateEntity",
     "DeleteEntity", "GetCount", "ListEntities", "BatchUpdateEntities"}

\* a goroutine inside a method of the client
Request(pc, op, err) == [pc |-> pc, op |-> op, err |-> err]

\* classExists over the schema the Getter returned
classExists(classes, className) == \E class \in classes : class = className

\* the outcome of ClassCreator().Do: the vector store refuses a class it
\* holds already, and may fail for a reason of its own
CreateOutcome(classes, className, ok) ==
    IF className \in classes THEN "exists" ELSE IF ok THEN "created" ELSE "failed"

\* a goroutine enters a method of the client
CallClient(p, op) ==
    /\ requests[p] = NoRequest
    /\ requests' = [requests EXCEPT ![p] = Request("flag", op, "")]
    /\ UNCHANGED <<schemaInitDone, vsClasses, createCalls, nonSchemaVars>>

\* if !c.schemaInitDone: the read is not synchronised with the writes of
\* the other goroutines, so a flag they set may still read as false
CheckFlag(p, seen) ==
    /\ requests[p].pc = "flag"
    /\ seen \in {schemaInitDone, FALSE}
    /\ requests' = [requests EXCEPT ![p].pc = IF seen THEN "body" ELSE "classExists"]
    /\ UNCHANGED <<schemaInitDone, vsClasses, createCalls, nonSchemaVars>>

\* InitSchema up to the test of exists: the Getter fails, or the class is
\* looked up in the schema it returned
InitSchemaCheck(p, ok) ==
    /\ requests[p].pc = "classExists"
    /\ requests' = [requests EXCEPT ![p] =
                       IF ~ok THEN [@ EXCEPT !.pc = "done", !.err = "get"]
                       ELSE IF classExists(vsClasses, ClassName) THEN [@ EXCEPT !.pc = "body"]
                       ELSE [@ EXCEPT !.pc = "create"]]
    /\ schemaInitDone' = IF ok /\ classExists(vsClasses, ClassName) THEN TRUE
                         ELSE schemaInitDone
    /\ UNCHANGED <<vsClasses, createCalls, nonSchemaVars>>

\* InitSchema from the ClassCreator call on
InitSchemaCreate(p, ok) ==
    /\ requests[p].pc = "create"
    /\ ok \/ Cardinality({k \in 1..Len(createCalls) : createCalls[k] = "failed"}) < MaxCreateFailures
    /\ \E outcome \in {CreateOutcome(vsClasses, ClassName, ok)} :
          /\ createCalls' = Append(createCalls, outcome)
          /\ vsClasses' = IF outcome = "created" THEN vsClasses \cup {ClassName} ELSE vsClasses
          /\ requests' = [requests EXCEPT ![p] =
                             IF outcome = "created" THEN [@ EXCEPT !.pc = "setFlag"]
                             ELSE [@ EXCEPT !.pc = "done", !.err = outcome]]
    /\ UNCHANGED <<schemaInitDone, nonSchemaVars>>

\* c.schemaInitDone = true after the class was created
InitSchemaDone(p) ==
    /\ requests[p].pc = "setFlag"
    /\ schemaInitDone' = TRUE
    /\ requests' = [requests EXCEPT ![p].pc = "body"]
    /\ UNCHANGED <<vsClasses, createCalls, nonSchemaVars>>

\* the rest of the method, the schema being initialised
ClientBody(p) ==
    /\ requests[p].pc = "body"
    /\ requests' = [requests EXCEPT ![p].pc = "done"]
    /\ UNCHANGED <<schemaInitDone, vsClasses, createCalls, nonSchemaVars>>

\* the method returns to its caller
ReturnClient(p) ==
    /\ requests[p] # NoRequest
    /\ requests[p].pc = "done"
    /\ requests' = [requests EXCEPT ![p] = NoRequest]
    /\ UNCHANGED <<schemaInitDone, vsClasses, createCalls, nonSchemaVars>>

\* a call of FindMatches(text, opts)
MatchText(text, opts, vector, fail) ==
    /\ resp = Idle
    /\ \E o \in FindMatches(text, opts, vector, fail, clusteringEnabled, keyCache, store) :
          /\ keyCache' = o.cache
          /\ resp' = [op |-> "FindMatches", text |-> text, queryID |-> 0,
                      queryFields |-> EmptyMap, opts |-> opts,
                      threshold |-> o.threshold, limit |-> o.limit,
                      assigns |-> o.assigns, searches |-> o.searches,
                      candidates |-> o.candidates, results |-> o.results,
                      err |-> o.err]
    /\ UNCHANGED <<clusteringEnabled, store>>
    /\ UNCHANGED backgroundVars

\* a call of FindMatchesForEntity(entity, opts)
MatchEntity(id, fields, opts, vector, fail) ==
    /\ resp = Idle
    /\ \E o \in FindMatchesForEntity(fields, opts, vector, fail,
                                     clusteringEnabled, keyCache, store) :
          /\ keyCache' = o.cache
          /\ resp' = [op |-> "FindMatchesForEntity", text |-> "", queryID |-> id,
                      queryFields |-> fields, opts |-> opts,
                      threshold |-> o.threshold, limit |-> o.limit,
                      assigns |-> o.assigns, searches |-> o.searches,
                      candidates |-> o.candidates, results |-> o.results,
                      err |-> o.err]
    /\ UNCHANGED <<clusteringEnabled, store>>
    /\ UNCHANGED backgroundVars

\* the handler returns; the service waits for the next request
Return ==
    /\ resp # Idle
    /\ resp.op \in {"GetMatchGroup", "RecomputeClusters"} => resp.pc = "done"
    /\ resp' = Idle
    /\ UNCHANGED <<clusteringEnabled, store, keyCache>>
    /\ UNCHANGED backgroundVars

\* the inputs of the group requests
GroupFields == {[name |-> "Acme", zip |-> ""]}
GroupOptionsSet ==
    {MatchGroupOptions(t, m, FALSE, st, h, EmptyMap) :
        t \in Thresholds, m \in {0, 2}, st \in {"direct", "transitive", "hybrid"},
        h \in {0, 1}}
\* the answers of the embedding service and of the search to one query: a
\* vector, and the collaborator that fails
MatchCalls ==
    {[vector |-> v, fail |-> f] : v \in Vecs, f \in {"", "search"}}
        \cup {[vector |-> 0, fail |-> "embed"]}
\* the lengths of the lists submitted for batch ingest
BatchLens == {BatchSize - 1, BatchSize, BatchSize + 1, 2 * BatchSize + 1}
\* the entity whose group is requested: the first one ingested, the IDs
\* being interchangeable
PrimaryIDs == {1}
LostSets == {{}} \cup {{id} : id \in IDs}
NoGroup == [Entities |-> <<>>, Score |-> RZero, Size |-> 0, SampleFields |-> EmptyMap]
NoBfs == Bfs(<<>>, {}, <<>>, EmptyMap)

\* one call of FindMatchesForEntity by getTransitiveMatchGroup: the entity
\* expanded and the IDs of the matches returned
Expansion(id, matches) == [id |-> id, results |-> {matches[i].ID : i \in 1..Len(matches)}]

\* the IDs of a list of results
ResultIDs(entities) == {entities[i].ID : i \in 1..Len(entities)}

\* GetMatchGroup(entityID, opts) up to the choice of the strategy; the store
\* fails to return an entity it does not hold.  errEntity: the entity whose
\* FindMatchesForEntity call failed, 0 when none did; expanded: the calls of
\* FindMatchesForEntity that getTransitiveMatchGroup made and their answers.
GetMatchGroup(entityID, opts0) ==
    LET opts == ResolveGroupOptions(opts0)
        entity == store[entityID]
        primaryResult == convertToMatchResult(entity, ROne)
        r(pc, entities, bfs, err) ==
            [op |-> "GetMatchGroup", pc |-> pc, entityID |-> entityID, opts |-> opts,
             entities |-> entities, visited |-> {}, branches |-> <<>>, bfs |-> bfs,
             group |-> NoGroup, err |-> err, errEntity |-> 0, expanded |-> <<>>]
    IN  /\ resp = Idle
        /\ resp' = IF entityID \notin DOMAIN store
                   THEN r("done", <<>>, NoBfs, "get")
                   ELSE CASE opts.Strategy = "direct" ->
                               r("direct", <<primaryResult>>, NoBfs, "")
                          [] opts.Strategy = "hybrid" ->
                               r("direct", <<primaryResult>>, NoBfs, "")
                          [] opts.Strategy = "transitive" ->
                               r("transitive", <<primaryResult>>,
                                 StartBfs(<<primaryResult>>, entity), "")
                          [] OTHER -> r("done", <<primaryResult>>, NoBfs, "strategy")
        /\ UNCHANGED <<clusteringEnabled, store, keyCache>>
        /\ UNCHANGED backgroundVars

\* getDirectMatchGroup, for the direct strategy and as the first part of
\* getHybridMatchGroup
DirectMatchGroup(vector, fail) ==
    /\ resp.op = "GetMatchGroup"
    /\ resp.pc = "direct"
    /\ LET hybrid == resp.opts.Strategy = "hybrid"
           opts == IF hybrid THEN HybridDirectOptions(resp.opts) ELSE resp.opts
           entity == store[resp.entityID]
       IN  \E o \in FindMatchesForEntity(EntityDataFields(entity),
                                        GroupMatchOptions(opts, clusteringEnabled),
                                        vector, fail, clusteringEnabled, keyCache, store) :
              /\ keyCache' = o.cache
              /\ resp' =
                    IF o.err # ""
                    THEN [resp EXCEPT !.pc = "done", !.err = "match",
                                      !.errEntity = entity.ID]
                    ELSE LET direct == DirectMatches(o.results, entity.ID)
                             entities == resp.entities \o direct
                         IN  IF hybrid /\ resp.opts.HopsLimit > 1 /\ direct # <<>>
                             THEN [resp EXCEPT !.pc = "branch",
                                               !.entities = entities,
                                               !.visited = ResultIDs(entities),
                                               !.branches = direct]
                             ELSE [resp EXCEPT !.pc = "stats", !.entities = entities]
    /\ UNCHANGED <<clusteringEnabled, store>>
    /\ UNCHANGED backgroundVars

\* getHybridMatchGroup fetches the next direct match and starts its branch;
\* lost: the store fails to return it
HybridBranch(lost) ==
    /\ resp.op = "GetMatchGroup"
    /\ resp.pc = "branch"
    /\ LET directMatch == Head(resp.branches)
           rest == Tail(resp.branches)
       IN  resp' =
              IF lost \/ directMatch.ID \notin DOMAIN store
              THEN [resp EXCEPT !.branches = rest,
                                !.pc = IF rest = <<>> THEN "stats" ELSE "branch"]
              ELSE [resp EXCEPT !.branches = rest,
                                !.pc = "branchTransitive",
                                !.bfs = StartBfs(<<>>, store[directMatch.ID]),
                                !.expanded = <<>>]
    /\ UNCHANGED <<clusteringEnabled, store, keyCache>>
    /\ UNCHANGED backgroundVars

\* one round of the loop of getTransitiveMatchGroup: the entities at the hop
\* limit are popped, the next one is expanded; lost, one of lostSets, holds
\* the new matches the store fails to return.  When the search is over the
\* transitive strategy is done and a branch of the hybrid strategy is merged
\* into the group.
TransitiveMatchGroup(vector, fail, lostSets) ==
    /\ resp.op = "GetMatchGroup"
    /\ resp.pc \in {"transitive", "branchTransitive"}
    /\ LET branch == resp.pc = "branchTransitive"
           opts == IF branch THEN [resp.opts EXCEPT !.HopsLimit = @ - 1] ELSE resp.opts
           queue == SkipExhausted(resp.bfs.queue, resp.bfs.hopCount, opts.HopsLimit)
           current == Head(queue)
           currentHops == resp.bfs.hopCount[current.ID]
       IN  \E o \in FindMatchesForEntity(EntityDataFields(current),
                                        GroupMatchOptions(opts, clusteringEnabled),
                                        vector, fail, clusteringEnabled, keyCache, store) :
           \E lost \in lostSets :
              /\ lost \subseteq ResultIDs(o.results) \ resp.bfs.visited
              /\ keyCache' = o.cache
              /\ resp' =
                    IF o.err # ""
                    THEN [resp EXCEPT !.pc = "done", !.err = "match",
                                      !.errEntity = current.ID]
                    ELSE LET p == ProcessMatches(o.results,
                                                 [resp.bfs EXCEPT !.queue = Tail(queue)],
                                                 currentHops, opts.MaxGroupSize, lost, store)
                             calls == Append(resp.expanded,
                                             Expansion(current.ID, o.results))
                             left == SkipExhausted(p.bfs.queue, p.bfs.hopCount,
                                                   opts.HopsLimit)
                             m == MergeBranch(p.bfs.entities, resp.entities,
                                              resp.visited, resp.opts.MaxGroupSize)
                         IN  IF ~p.full /\ left # <<>>
                             THEN [resp EXCEPT !.bfs = [p.bfs EXCEPT !.queue = left],
                                               !.expanded = calls]
                             ELSE IF ~branch
                             THEN [resp EXCEPT !.pc = "stats", !.bfs = NoBfs,
                                               !.entities = p.bfs.entities,
                                               !.expanded = calls]
                             ELSE [resp EXCEPT
                                      !.pc = IF m.full \/ resp.branches = <<>>
                                             THEN "stats" ELSE "branch",
                                      !.bfs = NoBfs,
                                      !.expanded = calls,
                                      !.entities = m.entities,
                                      !.visited = m.visited]
    /\ UNCHANGED <<clusteringEnabled, store>>
    /\ UNCHANGED backgroundVars

\* the end of GetMatchGroup: calculateGroupStatistics
CalculateGroupStatistics ==
    /\ resp.op = "GetMatchGroup"
    /\ resp.pc = "stats"
    /\ \E g \in calculateGroupStatistics(resp.entities) :
          resp' = [resp EXCEPT !.pc = "done", !.group = g]
    /\ UNCHANGED <<clusteringEnabled, store, keyCache>>
    /\ UNCHANGED backgroundVars

Ingest ==
    \E id \in MatchIDs, f \in InputFields, v \in Vecs, fail \in {"", "embed", "store"} :
        AddEntity(id, f, v, fail)

TextQuery ==
    \E text \in Texts, opts \in MatchOptions, c \in MatchCalls :
        MatchText(text, opts, c.vector, c.fail)

EntityQuery ==
    \E id \in QueryIDs, f \in InputFields, opts \in EntityOptions,
       c \in MatchCalls :
        MatchEntity(id, f, opts, c.vector, c.fail)

\* the requests with field scores: the entities ingested and submitted as
\* queries, the texts with field=value pairs, and the options
ScoredFields == {[name |-> "Acme", zip |-> ""], [name |-> "Acme Corp", zip |-> ""]}
ScoredTexts == {"name=Acme Corp", "zip=12399;name=acme"}
ScoredOptions ==
    {Options(0, RZero, FALSE, i, EmptyMap, IF x = {} THEN [k \in {"zip"} |-> "text"] ELSE EmptyMap, x) :
        i \in BOOLEAN, x \in {{}, {"name"}}}

ScoredIngest ==
    \E id \in MatchIDs, f \in ScoredFields : AddEntity(id, f, 0, "")

ScoredTextQuery ==
    \E text \in ScoredTexts, opts \in ScoredOptions, v \in Vecs : MatchText(text, opts, v, "")

ScoredEntityQuery ==
    \E f \in ScoredFields, opts \in ScoredOptions, v \in Vecs :
        MatchEntity(0, f, opts, v, "")

\* the ingest of the entities 1, 2, ... in this order
GroupIngest ==
    \E id \in IDs, f \in GroupFields, v \in Vecs :
        /\ DOMAIN store = {j \in IDs : j < id}
        /\ AddEntity(id, f, v, "")

GroupQuery ==
    \E id \in PrimaryIDs, opts \in GroupOptionsSet : GetMatchGroup(id, opts)

\* a request for the group of an entity under the transitive strategy
TransitiveQuery ==
    \E id \in PrimaryIDs, opts \in {o \in GroupOptionsSet : o.Strategy = "transitive"} :
        GetMatchGroup(id, opts)

DirectStep ==
    \E c \in MatchCalls : DirectMatchGroup(c.vector, c.fail)

BranchStep == \E lost \in BOOLEAN : HybridBranch(lost)

TransitiveStep ==
    \E c \in MatchCalls : TransitiveMatchGroup(c.vector, c.fail, LostSets)

\* the batch ingest of n new entities, under IDs the store does not hold
BatchIngest ==
    \E n \in BatchLens, f \in GroupFields, v \in Vecs :
    \E embedFail \in {0, 1, n}, failAt \in {0} \cup BatchEnds(n) :
        /\ Cardinality(DOMAIN store) + n <= MaxStored
        /\ embedFail # 0 => failAt = 0
        /\ AddEntities([i \in 1..n |-> Cardinality(DOMAIN store) + i], f, v,
                       embedFail, failAt)

NextText == Ingest \/ TextQuery \/ Return
NextEntity == Ingest \/ EntityQuery \/ Return
NextGroup ==
    \/ GroupIngest
    \/ GroupQuery
    \/ DirectStep
    \/ BranchStep
    \/ TransitiveStep
    \/ CalculateGroupStatistics
    \/ Return

NextTransitive ==
    \/ GroupIngest
    \/ TransitiveQuery
    \/ TransitiveStep
    \/ CalculateGroupStatistics
    \/ Return
NextBatch == BatchIngest \/ Return
NextScored == ScoredIngest \/ ScoredTextQuery \/ ScoredEntityQuery \/ Return

\* a round of the loop, whatever fails in it
RecomputeStep ==
    \/ ListEntitiesFails
    \/ \E failAt \in {0, 1, BatchSize - 1, BatchSize} : RecomputeAllClustersRound(failAt)

\* the batch ingests of entities that all have the vector 0, which the
\* recomputation does not read
BatchIngestSameVector ==
    \E n \in BatchLens, f \in GroupFields :
    \E embedFail \in {0, 1, n}, failAt \in {0} \cup BatchEnds(n) :
        /\ Cardinality(DOMAIN store) + n <= MaxStored
        /\ embedFail # 0 => failAt = 0
        /\ AddEntities([i \in 1..n |-> Cardinality(DOMAIN store) + i], f, 0,
                       embedFail, failAt)

NextPaged == BatchIngestSameVector \/ RecomputeClusters \/ RecomputeStep \/ Return

NextRecompute ==
    \/ GroupIngest
    \/ handleRecomputeClusters
    \/ RecomputeGoroutine
    \/ CommandRecomputeClusters
    \/ Return

NextEmbed ==
    \/ \E p \in Procs, text \in EmbedTexts \cup {""} : CallGetEmbedding(p, text)
    \/ \E p \in Procs, texts \in EmbedLists : CallGetEmbeddingBatch(p, texts)
    \/ \E p \in Procs : RLock(p)
    \/ \E p \in Procs : ReadCache(p)
    \/ \E p \in Procs : BatchRead(p)
    \/ \E p \in Procs, ok \in BOOLEAN, embs \in EmbedAnswers : Fetch(p, ok, embs)
    \/ \E p \in Procs : Lock(p)
    \/ \E p \in Procs : BatchWrite(p)
    \/ \E p \in Procs : BatchUnlock(p)
    \/ \E p \in Procs : WriteCache(p)
    \/ \E p \in Procs : Unlock(p)
    \/ \E p \in Procs : ReturnCall(p)

NextSchema ==
    \/ \E p \in Procs, op \in ClientMethods : CallClient(p, op)
    \/ \E p \in Procs, seen \in BOOLEAN : CheckFlag(p, seen)
    \/ \E p \in Procs, ok \in BOOLEAN : InitSchemaCheck(p, ok)
    \/ \E p \in Procs, ok \in BOOLEAN : InitSchemaCreate(p, ok)
    \/ \E p \in Procs : InitSchemaDone(p)
    \/ \E p \in Procs : ClientBody(p)
    \/ \E p \in Procs : ReturnClient(p)

\* ingest and text queries
SpecText == Init /\ [][NextText]_vars
\* ingest and entity queries
SpecEntity == Init /\ [][NextEntity]_vars
\* ingest and match groups
SpecGroup == Init /\ [][NextGroup]_vars
\* batch ingest
SpecBatch == Init /\ [][NextBatch]_vars
\* concurrent calls of the embedding client
SpecEmbed == Init /\ [][NextEmbed]_vars
\* ingest and queries with field scores
SpecScored == Init /\ [][NextScored]_vars
\* the texts sent to the embedding service for entities
SpecTextToEmbed == InitTextToEmbed /\ [][TextToEmbed]_vars
\* the comparators applied to pairs of strings
SpecComparator == InitComparator /\ [][ApplyComparator]_vars
\* ingest and transitive match groups: the goroutine of a request keeps
\* running, its calls of the match service and of the store return
SpecTransitive ==
    /\ Init
    /\ [][NextTransitive]_vars
    /\ WF_vars(TransitiveStep)
    /\ WF_vars(CalculateGroupStatistics)
\* the blend of vector score and weighted field score
\* the batch ingests and the runs of the recomputation, whose rounds are
\* taken as long as the loop goes on
SpecPaged == Init /\ [][NextPaged]_vars /\ WF_vars(RecomputeStep)

SpecBlend == InitBlend /\ [][Blend]_vars
\* the normalizers applied to strings
SpecNormalizer == InitNormalizer /\ [][ApplyNormalizer]_vars
\* concurrent calls of the vector-store client
SpecSchema == Init /\ [][NextSchema]_vars
\* ingest and cluster recomputation: a started goroutine runs and a handler
\* returns; nobody has to run the command line
SpecRecompute ==
    Init /\ [][NextRecompute]_vars /\ WF_vars(RecomputeGoroutine) /\ WF_vars(Return)

(***************************************************************************)
(* Properties of the match queries                                         *)
(***************************************************************************)
\* C1: every result returned by FindMatches / FindMatchesForEntity has a
\* final score (after the blending with the field weights) that is at least
\* the resolved threshold.
C1_ScoreAtLeastThreshold ==
    (resp.op \in {"FindMatches", "FindMatchesForEntity"} /\ resp.err = "")
        => \A i \in 1..Len(resp.results) :
              RLeq(resp.threshold, resp.results[i].Score)

\* C2: the results returned by FindMatches are in non-increasing order of
\* score and there are at most limit of them, limit being opts.Limit when it
\* is positive and the configured default otherwise.
C2_SortedAndLimited ==
    (resp.op = "FindMatches" /\ resp.err = "")
        => /\ resp.limit = (IF resp.opts.Limit > 0 THEN resp.opts.Limit ELSE DefaultLimit)
           /\ Len(resp.results) <= resp.limit
           /\ \A i \in 1..Len(resp.results), j \in 1..Len(resp.results) :
                 i < j => RLeq(resp.results[j].Score, resp.results[i].Score)

\* a query whose blended scores reverse the order of the search, answered
\* with the best of two candidates only
C2_Witness ==
    /\ resp.op = "FindMatches"
    /\ resp.err = ""
    /\ resp.limit = 1
    /\ Len(resp.candidates) = 2
    /\ Len(resp.results) = 1
    /\ resp.results[1].ID = resp.candidates[2]
    /\ RLess(resp.results[1].Score, ROne)

\* C3: results of FindMatches with equal scores are in ascending order of
\* their IDs.
C3_TiesByAscendingID ==
    (resp.op = "FindMatches" /\ resp.err = "")
        => \A i \in 1..Len(resp.results), j \in 1..Len(resp.results) :
              (i < j /\ resp.results[i].Score = resp.results[j].Score)
                 => resp.results[i].ID < resp.results[j].ID

\* C4: FindMatchesForEntity with a query entity that has an ID never returns
\* a result with that ID.
C4_NoSelfMatch ==
    (resp.op = "FindMatchesForEntity" /\ resp.err = "" /\ resp.queryID # 0)
        => \A i \in 1..Len(resp.results) : resp.results[i].ID # resp.queryID

\* C5: a query that uses clustering and whose filtered search finds no
\* candidate issues a second search with the same vector and limit and no
\* filter.
C5_FallbackSearch ==
    (/\ resp.op \in {"FindMatches", "FindMatchesForEntity"}
     /\ resp.err = ""
     /\ resp.searches[1].filter # "")
        => IF Len(resp.searches) = 1 THEN resp.candidates # <<>>
           ELSE /\ Len(resp.searches) = 2
                /\ resp.searches[2] = [resp.searches[1] EXCEPT !.filter = ""]

\* C6: with clustering enabled, the first search of a FindMatchesForEntity
\* query whose fields equal those of a stored entity carries the cluster ID
\* stored for that entity as its filter.
C6_QueryUsesStoredCluster ==
    (/\ resp.op = "FindMatchesForEntity"
     /\ clusteringEnabled
     /\ resp.err # "embed")
        => \A id \in DOMAIN store :
              (store[id].Name = resp.queryFields.name
                 /\ store[id].Zip = resp.queryFields.zip)
                 => /\ Len(resp.searches) >= 1
                    /\ resp.searches[1].filter = store[id].ClusterID

\* C7: every cluster key handed out is the key computed from the normalized
\* blocking-field values with an empty cache, whatever the cache holds.
C7_KeyIndependentOfCache ==
    resp.op \in {"AddEntity", "FindMatches", "FindMatchesForEntity"}
        => \A i \in 1..Len(resp.assigns) :
              resp.assigns[i].id = ComputeClusterKey(resp.assigns[i].fields)

\* C8: the use_clustering option of the request decides: without it the
\* search has no cluster filter and the limit of the request, with it (the
\* configuration enabling clustering) the search has the cluster filter of
\* the query and three times the limit.
C8_OptionDecides ==
    (resp.op \in {"FindMatches", "FindMatchesForEntity"} /\ resp.err # "embed")
        => IF resp.opts.UseClustering
           THEN clusteringEnabled
                   => /\ resp.searches[1].filter # ""
                      /\ resp.searches[1].limit = resp.limit * 3
           ELSE /\ resp.searches[1].filter = ""
                /\ resp.searches[1].limit = resp.limit

(***************************************************************************)
(* Properties of the match groups                                          *)
(***************************************************************************)
\* C9: whatever the strategy, the entities of the group GetMatchGroup
\* returns have pairwise distinct IDs.
C9_DistinctGroupIDs ==
    (resp.op = "GetMatchGroup" /\ resp.pc = "done" /\ resp.err = "")
        => \A i \in 1..Len(resp.group.Entities), j \in 1..Len(resp.group.Entities) :
              i # j => resp.group.Entities[i].ID # resp.group.Entities[j].ID

\* a hybrid group of three entities, one of them merged from a branch in
\* which the primary was found again
C9_Witness ==
    /\ resp.op = "GetMatchGroup"
    /\ resp.pc = "done"
    /\ resp.err = ""
    /\ resp.opts.Strategy = "hybrid"
    /\ resp.group.Size = 3
    /\ \E i \in 1..Len(resp.group.Entities) : resp.group.Entities[i].HopDistance >= 1

C11_SizeAtMostMaxSize ==
    (resp.op = "GetMatchGroup" /\ resp.pc = "done" /\ resp.err = "")
        => Len(resp.group.Entities) <= resp.opts.MaxGroupSize

\* C12: a GetMatchGroup request with a valid strategy fails only when the
\* primary cannot be fetched or FindMatchesForEntity fails for the primary:
\* a failure met while expanding another entity leaves the request
\* successful.
C12_FailsOnlyForPrimary ==
    (resp.op = "GetMatchGroup" /\ resp.pc = "done" /\ resp.err \notin {"", "strategy"})
        => \/ resp.err = "get"
           \/ resp.err = "match" /\ resp.errEntity = resp.entityID

(***************************************************************************)
(* Properties of the batch ingest                                          *)
(***************************************************************************)
\* C13: when AddEntities fails after some batches were acknowledged, the
\* error it returns carries the number of entities committed, which is the
\* number of entities of the acknowledged batches.
C13_ErrorExposesCommitted ==
    (resp.op = "AddEntities" /\ resp.err # NoError /\ resp.acked > 0)
        => \E k \in 1..Len(resp.err.numbers) : resp.err.numbers[k] = resp.acked

(***************************************************************************)
(* Properties of the cluster recomputation                                 *)
(***************************************************************************)
\* C14: every POST /clusters/recompute answered with 202 is eventually
\* followed by an execution of RecomputeClusters over the stored entities
\* (the answer itself is given while the goroutine is still pending).
C14_AcceptedIsRecomputed ==
    \A k \in 0..(MaxRuns - 1) :
        (resp.op = "handleRecomputeClusters" /\ resp.status = 202 /\ recomputeRuns = k)
            ~> (recomputeRuns > k)

(***************************************************************************)
(* Properties of the embedding cache                                       *)
(***************************************************************************)
\* C15: whatever the interleaving of the concurrent GetEmbedding and
\* GetEmbeddingBatch calls, the cache never holds more than CacheSize
\* entries, it changes only while a goroutine holds the write lock and no
\* goroutine a read lock, and it gets a new text only if it was not full.
C15_CacheBounded ==
    [][/\ Cardinality(DOMAIN embCache') <= CacheSize
       /\ embCache' # embCache => cacheMutex.writer # 0 /\ cacheMutex.readers = {}
       /\ DOMAIN embCache' # DOMAIN embCache => Cardinality(DOMAIN embCache) < CacheSize]_vars

\* the cache is full, a goroutine holding the write lock has just skipped
\* the insertion of a text the cache does not hold, and the other goroutine
\* waits for the write lock
C15_Witness ==
    \E p \in Procs, q \in Procs :
        /\ p # q
        /\ cacheMutex.writer = p
        /\ callers[p].pc = "batchUnlock"
        /\ Cardinality(DOMAIN embCache) = CacheSize
        /\ \E i \in 1..Len(NextChunk(callers[p])) :
              NextChunk(callers[p])[i] \notin DOMAIN embCache
        /\ callers[q] # NoCall
        /\ callers[q].pc \in {"lock", "batchLock"}

(***************************************************************************)
(* Properties of the schema initialisation                                 *)
(***************************************************************************)
\* C16: whatever the interleaving of the concurrent first requests, at most
\* one class-creation call reaches the vector store without failing for a
\* reason of the store's own, and no request fails because the class was
\* created by another request in the meantime.
C16_CreatedOnce ==
    /\ Cardinality({k \in 1..Len(createCalls) : createCalls[k] # "failed"}) <= 1
    /\ \A p \in Procs : requests[p] # NoRequest => requests[p].err # "exists"

(***************************************************************************)
(* Properties of the normalizers                                           *)
(***************************************************************************)
\* C17: every normalizer is idempotent: applied to its own result it
\* returns that result.
C17_Idempotent == resp.op = "normalized" => resp.twice = resp.once

(***************************************************************************)
(* Properties of the comparators                                           *)
(***************************************************************************)
\* C18: every comparator of the registry gives the score 1 to a string
\* compared with itself, the empty string and the strings without a letter
\* or a digit included.
C18_SelfSimilarityOne ==
    (resp.op = "compared" /\ resp.a = resp.b) => resp.score = ROne

(***************************************************************************)
(* Properties of the text embedded for an entity                           *)
(***************************************************************************)
\* the normalized fields in the order of the specification
NormalizedFieldOrder ==
    <<"name_normalized", "address_normalized", "city_normalized", "state_normalized",
      "zip_normalized", "phone_normalized", "email_normalized">>

\* the non-empty values of the normalized fields present in the map, in
\* that order, separated by single spaces
FixedOrderText(normalizedFields) ==
    Join([i \in 1..Len(SelectSeq(NormalizedFieldOrder,
                                 LAMBDA k : Get(normalizedFields, k) # "")) |->
             normalizedFields[SelectSeq(NormalizedFieldOrder,
                                        LAMBDA k : Get(normalizedFields, k) # "")[i]]], " ")

\* C19: the text sent to the embedding service for an entity, at ingest
\* and for an entity query, is made of its non-empty normalized fields only,
\* in the order name, address, city, state, zip, phone, email, separated by
\* single spaces; so one field map has one text.
C19_FixedOrderNormalizedOnly ==
    resp.op = "textToEmbed" => resp.text = FixedOrderText(NormalizeEntity(resp.fields))

(***************************************************************************)
(* Properties of the field scores                                          *)
(***************************************************************************)
\* the value the query of the response has for the field f: the value of
\* the pair f=value of a text query, the normalized or raw value of the
\* entity of an entity query
QueryValue(f) ==
    IF resp.op = "FindMatches" THEN Get(parseQueryFields(resp.text), f)
    ELSE Get(NormalizeEntity(resp.queryFields), f)

\* C20: in the answer to an entity query and to a text query with
\* field=value pairs, every field score recorded for a result is the
\* similarity, under the comparator selected for the field (forced exact
\* match, else the mapped field type, else inferred from the name), of the
\* query's value and the candidate's value of that field.
C20_FieldScoreComparesQuery ==
    (/\ resp.op \in {"FindMatches", "FindMatchesForEntity"}
     /\ resp.err = ""
     /\ resp.op = "FindMatches" => DOMAIN parseQueryFields(resp.text) # {})
        => \A i \in 1..Len(resp.results) :
              \A f \in DOMAIN resp.results[i].FieldScores :
                 resp.results[i].FieldScores[f].Score =
                    Compare(SelectSimFn(f, resp.opts), QueryValue(f),
                            resp.results[i].Fields[f])
\* C21: ZipCodeSimilarity returns 1.0 for a ZIP+4 code against its own
\* 5-digit ZIP, and 0.8 for two codes whose digits agree on exactly the
\* first 3 or 4 positions.
C21_ZipDigits ==
    (resp.op = "compared" /\ resp.fn = "ZipCodeSimilarity") =>
        LET aDigits == KeepChars(resp.a, DigitChars)
            bDigits == KeepChars(resp.b, DigitChars)
            agree == CommonPrefixLen(aDigits, bDigits, 1, Min(Len(aDigits), Len(bDigits)))
        IN  /\ (Len(aDigits) = 9 /\ Len(bDigits) = 5 /\ Prefix(aDigits, 5) = bDigits)
                => resp.score = ROne
            /\ (aDigits # bDigits /\ agree \in {3, 4}) => resp.score = R(8, 10)

\* C22: EmailSimilarity returns 0.99 for two addresses equal except for
\* letter case, and about 0.3 (within 0.05) for two valid addresses with the
\* same user part and different domains.
C22_EmailCaseAndDomain ==
    (resp.op = "compared" /\ resp.fn = "EmailSimilarity") =>
        /\ (resp.a # resp.b /\ ToLower(resp.a) = ToLower(resp.b)) => resp.score = R(99, 100)
        /\ (/\ EmailParts(resp.a) # <<>>
            /\ EmailParts(resp.b) # <<>>
            /\ EmailParts(resp.a)[1] = EmailParts(resp.b)[1]
            /\ ToLower(EmailParts(resp.a)[2]) # ToLower(EmailParts(resp.b)[2]))
               => RLeq(R(25, 100), resp.score) /\ RLeq(resp.score, R(35, 100))

\* C23: with enable_lowercase, remove_legal_suffixes and normalize_initials
\* set, NormalizeName returns a lower-case name, strips a trailing legal
\* suffix ("ACME INC." gives "acme"), and leaves no period after a
\* single-letter initial ("J. D. Salinger" gives "j d salinger").
C23_NameNormalized ==
    (/\ EnableLowercase /\ RemoveLegalSuffixes /\ NormalizeInitialsOpt
     /\ resp.op = "normalized" /\ resp.fn = "NormalizeName") =>
        /\ resp.once = ToLower(resp.once)
        /\ resp.x = "ACME INC." => resp.once = "acme"
        /\ resp.x = "J. D. Salinger" => resp.once = "j d salinger"
        /\ \A k \in 1..(Len(resp.once) - 1) :
              ~(/\ IsLetter(CharAt(resp.once, k))
                /\ (k = 1 \/ ~IsWordChar(CharAt(resp.once, k - 1)))
                /\ CharAt(resp.once, k + 1) = ".")

(***************************************************************************)
(* Properties of the weighted score                                        *)
(***************************************************************************)
\* the weight of a field: 1.0 when FieldWeights does not hold it
WeightOf(f) == IF f \in DOMAIN resp.fieldWeights THEN resp.fieldWeights[f] ELSE ROne
\* the term of a field in the sum of the weighted scores and in the sum of
\* the weights: nothing for a field without a score
WeightedTerm(f) ==
    IF f \in DOMAIN resp.fieldScores THEN RMul(WeightOf(f), resp.fieldScores[f].Score)
    ELSE RZero
WeightTerm(f) == IF f \in DOMAIN resp.fieldScores THEN WeightOf(f) ELSE RZero
WeightedSum == RAdd(WeightedTerm("name"), WeightedTerm("phone"))
WeightSum == RAdd(WeightTerm("name"), WeightTerm("phone"))
Blended == DOMAIN resp.fieldWeights # {} /\ DOMAIN resp.fieldScores # {}

\* C24 as stated: the weighted field score is the sum of w_i*s_i divided by
\* the sum of w_i, a field absent from FieldWeights taking weight 1.0; the
\* final score is (vectorScore + weighted)/2 when FieldWeights is non-empty
\* and a field score exists, and the vector score otherwise.
C24_WeightedQuotient ==
    resp.op = "blended" =>
        resp.score = IF Blended
                     THEN RDiv(RAdd(resp.vectorScore, RDiv(WeightedSum, WeightSum)), RInt(2))
                     ELSE resp.vectorScore

\* C24 amended: as stated, the weighted field score being 0 when the weights
\* of the scored fields add up to 0.
C24_WeightedQuotientOrZero ==
    resp.op = "blended" =>
        resp.score = IF ~Blended THEN resp.vectorScore
                     ELSE IF WeightSum = RZero THEN RDiv(resp.vectorScore, RInt(2))
                     ELSE RDiv(RAdd(resp.vectorScore, RDiv(WeightedSum, WeightSum)), RInt(2))

\* a blended result with scores for name and phone and a weight for name
\* only: 0.6 * 0.8 + 1.0 * 0.5 over 1.6, averaged with the vector score 0.5
C24_Witness ==
    /\ resp.op = "blended"
    /\ resp.vectorScore = R(1, 2)
    /\ DOMAIN resp.fieldScores = {"name", "phone"}
    /\ resp.fieldScores["name"].Score = R(8, 10)
    /\ resp.fieldScores["phone"].Score = R(5, 10)
    /\ DOMAIN resp.fieldWeights = {"name"}
    /\ resp.fieldWeights["name"] = R(6, 10)
    /\ resp.score = RDiv(RAdd(R(1, 2), R(98, 160)), RInt(2))

(***************************************************************************)
(* Properties of the group statistics                                      *)
(***************************************************************************)
\* C25: in the group GetMatchGroup returns, sample_fields has an entry
\* exactly for each raw (non-normalized) field with a non-empty value in
\* some member; its value is a most frequent value of the field among the
\* members, agreement = (members holding that value) / size, within [0,1],
\* and confidence = agreement * group.score.
C25_SampleFieldsOfRawFields ==
    (resp.op = "GetMatchGroup" /\ resp.pc = "done" /\ resp.err = "") =>
        /\ DOMAIN resp.group.SampleFields =
              {f \in RawFieldNames :
                  \E i \in 1..Len(resp.group.Entities) :
                     /\ f \in DOMAIN resp.group.Entities[i].Fields
                     /\ resp.group.Entities[i].Fields[f] # ""}
        /\ \A f \in DOMAIN resp.group.SampleFields :
              /\ resp.group.SampleFields[f].Value # ""
              /\ \A i \in 1..Len(resp.group.Entities) :
                    f \in DOMAIN resp.group.Entities[i].Fields =>
                       ValueCount(resp.group.Entities, f, resp.group.Entities[i].Fields[f])
                          <= ValueCount(resp.group.Entities, f, resp.group.SampleFields[f].Value)
              /\ resp.group.SampleFields[f].Agreement =
                    R(ValueCount(resp.group.Entities, f, resp.group.SampleFields[f].Value),
                      resp.group.Size)
              /\ RLeq(RZero, resp.group.SampleFields[f].Agreement)
              /\ RLeq(resp.group.SampleFields[f].Agreement, ROne)
              /\ resp.group.SampleFields[f].Confidence =
                    RMul(resp.group.SampleFields[f].Agreement, resp.group.Score)

(***************************************************************************)
(* Properties of the transitive search                                     *)
(***************************************************************************)
\* a request for a group under the transitive strategy has returned a group
TransitiveDone ==
    /\ resp.op = "GetMatchGroup"
    /\ resp.pc = "done"
    /\ resp.err = ""
    /\ resp.opts.Strategy = "transitive"
\* the calls of FindMatchesForEntity that returned the entity id
ReturnedBy(id) ==
    {k \in 1..Len(resp.expanded) : id \in resp.expanded[k].results}
\* the hop distance of a member of the returned group, 0 for the primary
DepthOf(id) ==
    IF id = resp.entityID THEN 0
    ELSE resp.group.Entities[CHOOSE i \in 1..Len(resp.group.Entities) :
                                resp.group.Entities[i].ID = id].HopDistance

\* C26: in the transitive strategy every non-primary member m carries a
\* hop_distance equal to its breadth-first depth from the primary (1 + the
\* depth of the entity whose expansion first returned m, and no expansion
\* that returned m gives less), with 1 <= hop_distance <= hopsLimit; and an
\* entity returned by the expansion of a member is included whatever its
\* direct score to the primary, as long as the group is below its maximal
\* size.
C26_HopDistanceIsDepth ==
    TransitiveDone =>
        /\ \A i \in 1..Len(resp.group.Entities) :
              resp.group.Entities[i].ID # resp.entityID =>
                 /\ ReturnedBy(resp.group.Entities[i].ID) # {}
                 /\ \A k \in ReturnedBy(resp.group.Entities[i].ID) :
                       /\ resp.group.Entities[i].HopDistance <= 1 + DepthOf(resp.expanded[k].id)
                       /\ (\A j \in ReturnedBy(resp.group.Entities[i].ID) : k <= j)
                             => resp.group.Entities[i].HopDistance
                                   = 1 + DepthOf(resp.expanded[k].id)
                 /\ 1 <= resp.group.Entities[i].HopDistance
                 /\ resp.group.Entities[i].HopDistance <= resp.opts.HopsLimit
        /\ Len(resp.group.Entities) < resp.opts.MaxGroupSize =>
              \A k \in 1..Len(resp.expanded) :
                 resp.expanded[k].results \subseteq ResultIDs(resp.group.Entities)

\* a group with a member at hop distance 2, which the expansion of the
\* primary did not return and whose vector is farther from the primary's
\* than the threshold allows
C26_Witness ==
    /\ TransitiveDone
    /\ Len(resp.expanded) >= 2
    /\ resp.expanded[1].id = resp.entityID
    /\ \E i \in 1..Len(resp.group.Entities) :
          /\ resp.group.Entities[i].HopDistance = 2
          /\ resp.group.Entities[i].ID \notin resp.expanded[1].results
          /\ resp.group.Entities[i].ID \in DOMAIN store
          /\ RLess(RSub(ROne, Distance(store[resp.entityID].Vector,
                                       store[resp.group.Entities[i].ID].Vector)),
                   resp.opts.ThresholdOverride)

\* the entities getTransitiveMatchGroup expanded are distinct entities of
\* the store, and so are the entities of its queue, none of which was
\* expanded before
ExpandedOnce ==
    resp.op = "GetMatchGroup" =>
        /\ \A j, k \in 1..Len(resp.expanded) :
              j < k => resp.expanded[j].id # resp.expanded[k].id
        /\ \A k \in 1..Len(resp.expanded) : resp.expanded[k].id \in DOMAIN store
        /\ Len(resp.expanded) + Len(resp.bfs.queue) <= Cardinality(DOMAIN store)
        /\ \A j, k \in 1..Len(resp.bfs.queue) :
              j < k => resp.bfs.queue[j].ID # resp.bfs.queue[k].ID
        /\ \A j \in 1..Len(resp.bfs.queue) :
              /\ resp.bfs.queue[j].ID \in resp.bfs.visited
              /\ \A k \in 1..Len(resp.expanded) :
                    resp.expanded[k].id # resp.bfs.queue[j].ID

\* a round of the loop of getTransitiveMatchGroup that does not end the
\* search expands one more entity
RoundExpands ==
    (/\ resp.op = "GetMatchGroup"
     /\ resp.pc = "transitive"
     /\ resp'.op = "GetMatchGroup"
     /\ resp'.pc = "transitive")
        => Len(resp'.expanded) = Len(resp.expanded) + 1

\* C27: a transitive group expansion over a finite store terminates: within
\* one run of getTransitiveMatchGroup every entity is enqueued and expanded
\* at most once, being marked visited before it is enqueued, and every
\* round of the loop that goes on expands one more entity, so that the loop
\* has no more rounds than the store has entities.
C27_TerminatesExpandingOnce == []ExpandedOnce /\ [][RoundExpands]_vars

\* a search that expanded three entities has returned its group
C27_Witness ==
    /\ TransitiveDone
    /\ Len(resp.expanded) = 3
    /\ Len(resp.group.Entities) = 3

(***************************************************************************)
(* Pages of the recomputation                                              *)
(***************************************************************************)
\* a run of RecomputeClusters returned without error
RecomputeDone ==
    resp.op = "RecomputeClusters" /\ resp.pc = "done" /\ resp.err = ""

\* the rounds of a run so far: every page has at most batchSize entities,
\* the pages follow each other in the list of the store, and the offset is
\* the number of entities listed and written back
PagesInOrder ==
    resp.op = "RecomputeClusters" =>
        /\ \A k \in 1..Len(resp.pages) : Len(resp.pages[k]) <= resp.batchSize
        /\ resp.offset = Len(resp.updated)
        /\ resp.offset <= Cardinality(DOMAIN store)
        /\ \A i \in 1..Len(resp.updated) : resp.updated[i] = i

\* a round after which the loop goes on has listed a full page
RoundAdvances ==
    (/\ resp.op = "RecomputeClusters"
     /\ resp.pc = "list"
     /\ resp'.op = "RecomputeClusters"
     /\ resp'.pc = "list")
        => resp'.offset = resp.offset + resp.batchSize

\* on successful return every stored entity was written back once, with
\* the cluster key of its own fields
AllUpdatedOnce ==
    RecomputeDone =>
        /\ clusteringEnabled
        /\ Len(resp.updated) = Cardinality(DOMAIN store)
        /\ \A id \in DOMAIN store :
              /\ Cardinality({i \in 1..Len(resp.updated) : resp.updated[i] = id}) = 1
              /\ store[id].ClusterID = ComputeClusterKey(RecordFields(store[id]))

C29_EmbedFailureWritesNothing ==
    [][(resp = Idle /\ resp'.op = "AddEntities" /\ resp'.embedFail # 0)
          => (store' = store /\ resp'.err # NoError)]_vars

\* a call for more entities than one batch of the vector store holds, whose
\* last entity the embedding service failed for, on a store that holds
\* entities
C29_Witness ==
    /\ resp.op = "AddEntities"
    /\ resp.embedFail = resp.n
    /\ resp.n > BatchSize
    /\ resp.err = AddEntitiesError(resp.embedFail, "")
    /\ DOMAIN store # {}
    /\ \A id \in DOMAIN store : id <= MaxStored - resp.n
(***************************************************************************)
(* Determinism of the address comparator                                   *)
(***************************************************************************)
\* C30: AddressSimilarity.Compare is a function of its two arguments: the
\* score an evaluation returned for a pair of addresses is the score of
\* every evaluation on that pair.
C30_AddressScoreDetermined ==
    (resp.op = "compared" /\ resp.fn = "AddressSimilarity") =>
        \A score \in Scores(resp.fn, resp.a, resp.b) : score = resp.score
====
